---- MODULE Spec2Model ----
(***************************************************************************)
(* A model of minydra: the command-line parser (minydra/parser.py) and the *)
(* MinyDict nested dictionary (minydra/dict.py).                           *)
(*                                                                         *)
(* Python strings are sequences of one-character strings, so that split,   *)
(* strip, join, replace and the regular expression of set_env are computed *)
(* character by character.  Python values are tagged records [t, v]:       *)
(*   "str"   v = sequence of characters      "int"  v = integer            *)
(*   "bool"  v = BOOLEAN                     "none" v = 0                  *)
(*   "float" v = <<mantissa, exponent>> (mantissa * 10^exponent)           *)
(*   "list" / "tuple"  v = sequence of values                              *)
(*   "dict"  v = sequence of <<key, value>> pairs in insertion order       *)
(*   "miny"  a MinyDict: as "dict", with the field frozen                  *)
(*   "raise" v = the name of the exception that left the call              *)
(***************************************************************************)
EXTENDS Integers, Sequences, FiniteSets, TLC

VARIABLES
    op,       \* the last operation that ran ("init" before any)
    argv,     \* the token list handed to the last parser operation
    flags,    \* the boolean options of the last parser operation
    value,    \* the value handed to set_env / _infer_arg_type
    env,      \* the process environment: name -> value, or a "none" value
    ret,      \* what the last operation returned, or the exception it raised
    stdout,   \* the warnings the last operation printed, in order
    init_kwargs, \* the keyword arguments the Parser was constructed with
    self_conf, \* the conf attribute of the Parser under construction
    self_args, \* its args attribute, a "none" value while it is not assigned
    d,        \* the MinyDict under test
    dpre,     \* d as it was before the last MinyDict operation
    other,    \* the argument of the last MinyDict operation
    steps,    \* the number of MinyDict operations applied so far
    heap,     \* the MinyDict instances of the copy tests: instance number ->
              \* [v: its pairs, frozen]; a value that is a MinyDict is a
              \* reference to an instance
    hpre,     \* heap as it was before the last operation on it
    d1,       \* the reference to the original map, a "none" value before
    d2,       \* [ref, by]: the reference to the copy and how it was made
    freeze_calls \* the freeze / unfreeze calls made since d was constructed,
              \* in order: "freeze" and "unfreeze" on d itself, "nested" for
              \* freeze() on a map nested in d

vars == <<op, argv, flags, value, env, ret, stdout, init_kwargs, self_conf, self_args, d, dpre, other, steps,
          heap, hpre, d1, d2, freeze_calls>>
heapVars == <<heap, hpre, d1, d2>>
dictVars == <<d, dpre, other, steps, freeze_calls, heapVars>>

(***************************************************************************)
(* Python values                                                           *)
(***************************************************************************)
PyStr(s) == [t |-> "str", v |-> s]
PyInt(n) == [t |-> "int", v |-> n]
PyBool(b) == [t |-> "bool", v |-> b]
PyFloat(m, e) == [t |-> "float", v |-> <<m, e>>]
PyNone == [t |-> "none", v |-> 0]
PyList(xs) == [t |-> "list", v |-> xs]
PyTuple(xs) == [t |-> "tuple", v |-> xs]
PyDict(items) == [t |-> "dict", v |-> items]
Raise(name) == [t |-> "raise", v |-> name]
\* An exception whose message names msg.
RaiseMsg(name, msg) == [t |-> "raise", v |-> name, msg |-> msg]

\* F applied to the value v: the value is computed once and named in F.
With(v, F(_)) == F(v)

IsStr(x) == x.t = "str"
IsRaise(x) == x.t = "raise"

(***************************************************************************)
(* str methods                                                             *)
(***************************************************************************)
Whitespace == {" ", "\t"}

IsSubAt(s, pat, i) ==
    /\ i >= 1
    /\ i + Len(pat) - 1 <= Len(s)
    /\ SubSeq(s, i, i + Len(pat) - 1) = pat

\* The first index >= i at which pat occurs in s, or 0 (str.find, 1-based).
StrFind(s, pat, i) ==
    LET hits == {j \in i..(Len(s) - Len(pat) + 1) : IsSubAt(s, pat, j)}
    IN  IF hits = {} THEN 0 ELSE CHOOSE j \in hits : \A k \in hits : j <= k

\* `pat in s`
StrIn(pat, s) == StrFind(s, pat, 1) # 0

StartsWith(s, pat) == IsSubAt(s, pat, 1)

EndsWith(s, pat) == Len(s) >= Len(pat) /\ IsSubAt(s, pat, Len(s) - Len(pat) + 1)

RECURSIVE StrSplit(_, _)
StrSplit(s, sep) ==
    LET i == StrFind(s, sep, 1)
    IN  IF i = 0 THEN <<s>>
        ELSE <<SubSeq(s, 1, i - 1)>> \o StrSplit(SubSeq(s, i + Len(sep), Len(s)), sep)

RECURSIVE StrJoin(_, _)
StrJoin(sep, parts) ==
    IF parts = <<>> THEN <<>>
    ELSE IF Len(parts) = 1 THEN parts[1]
    ELSE parts[1] \o sep \o StrJoin(sep, Tail(parts))

RECURSIVE LStrip(_)
LStrip(s) == IF s # <<>> /\ Head(s) \in Whitespace THEN LStrip(Tail(s)) ELSE s

RECURSIVE RStrip(_)
RStrip(s) ==
    IF s # <<>> /\ s[Len(s)] \in Whitespace THEN RStrip(SubSeq(s, 1, Len(s) - 1)) ELSE s

Strip(s) == LStrip(RStrip(s))

\* str.replace(old, new): every non-overlapping occurrence, left to right.
RECURSIVE StrReplace(_, _, _)
StrReplace(s, old, new) ==
    LET i == StrFind(s, old, 1)
    IN  IF i = 0 THEN s
        ELSE SubSeq(s, 1, i - 1) \o new
             \o StrReplace(SubSeq(s, i + Len(old), Len(s)), old, new)

(***************************************************************************)
(* dict: insertion-ordered pairs with unique keys                          *)
(***************************************************************************)
RECURSIVE Pow10(_)
Pow10(n) == IF n <= 0 THEN 1 ELSE 10 * Pow10(n - 1)

\* Keys that compare equal in Python are one key: True == 1 == 1.0.
KeyNorm(k) ==
    IF k.t = "bool" THEN [t |-> "int", v |-> IF k.v THEN 1 ELSE 0]
    ELSE IF k.t = "float" /\ k.v[1] = "fin" /\ k.v[3] >= 0
         THEN [t |-> "int", v |-> k.v[2] * Pow10(k.v[3])]
    ELSE k

KeyEq(a, b) == KeyNorm(a) = KeyNorm(b)

DictKeys(items) == {items[i][1] : i \in 1..Len(items)}

DictHas(items, k) == \E i \in 1..Len(items) : KeyEq(items[i][1], k)

\* dict.get: the value under k, or None.
DictGet(items, k) ==
    IF DictHas(items, k)
    THEN items[CHOOSE i \in 1..Len(items) : KeyEq(items[i][1], k)][2]
    ELSE PyNone

\* items[k] = v: an existing key keeps its position (and the key object first
\* inserted), a new key is appended.
DictSet(items, k, v) ==
    IF DictHas(items, k)
    THEN [i \in 1..Len(items) |->
             IF KeyEq(items[i][1], k) THEN <<items[i][1], v>> ELSE items[i]]
    ELSE Append(items, <<k, v>>)

\* del items[k]
DictDel(items, k) == SelectSeq(items, LAMBDA p : ~KeyEq(p[1], k))

(***************************************************************************)
(* Parser.check_args                                                       *)
(***************************************************************************)
\* PyNone when the tokens pass, the exception otherwise.
\* A check that lets a token starting with the dot through.
check_args_accepts_leading_dot(args) ==
    LET args_str == StrJoin(<<" ">>, args)
    IN  IF StrIn(<<" ", "=">>, args_str) THEN Raise("MinydraWrongArgumentException")
        ELSE IF StrIn(<<"=", " ">>, args_str) THEN Raise("MinydraWrongArgumentException")
        ELSE IF EndsWith(args_str, <<"=">>) THEN Raise("MinydraWrongArgumentException")
        ELSE IF \E i \in 1..Len(args) : StrIn(<<"=">>, args[i]) /\ StartsWith(args[i], <<"-">>)
             THEN Raise("MinydraWrongArgumentException")
        ELSE PyNone

check_args(args) ==
    LET args_str == StrJoin(<<" ">>, args)
    IN  IF StrIn(<<" ", "=">>, args_str) THEN Raise("MinydraWrongArgumentException")
        ELSE IF StrIn(<<"=", " ">>, args_str) THEN Raise("MinydraWrongArgumentException")
        ELSE IF EndsWith(args_str, <<"=">>) THEN Raise("MinydraWrongArgumentException")
        ELSE IF \E i \in 1..Len(args) :
                    \/ StrIn(<<"=">>, args[i]) /\ StartsWith(args[i], <<"-">>)
                    \/ StartsWith(args[i], <<".">>)
             THEN Raise("MinydraWrongArgumentException")
        ELSE PyNone

(***************************************************************************)
(* Parser.map_argv                                                         *)
(***************************************************************************)
\* The key and the raw value of one token.
ArgKey(arg) ==
    IF StrIn(<<"=">>, arg) THEN Strip(StrSplit(arg, <<"=">>)[1])
    ELSE IF StartsWith(arg, <<"-">>) THEN Strip(Tail(arg))
    ELSE Strip(arg)

\* ArgValue with the text after a second "=" dropped.
ArgValue_second_field_only(arg) ==
    IF StrIn(<<"=">>, arg)
    THEN PyStr(Strip(StrSplit(arg, <<"=">>)[2]))
    ELSE IF StartsWith(arg, <<"-">>) THEN PyBool(FALSE)
    ELSE PyBool(TRUE)

ArgValue(arg) ==
    IF StrIn(<<"=">>, arg)
    THEN PyStr(Strip(StrJoin(<<"=">>, Tail(StrSplit(arg, <<"=">>)))))
    ELSE IF StartsWith(arg, <<"-">>) THEN PyBool(FALSE)
    ELSE PyBool(TRUE)

WarnRepeated(key) == <<"Repeated argument", key>>

\* The loop of map_argv from token i on: acc is [dict, out].
RECURSIVE MapArgvLoop(_, _, _, _, _)
MapArgvLoop(args, i, allow_overwrites, warn_overwrites, acc) ==
    IF i > Len(args) THEN [ret |-> PyDict(acc.dict), out |-> acc.out]
    ELSE
        LET key == PyStr(ArgKey(args[i]))
            val == ArgValue(args[i])
            rep == DictHas(acc.dict, key)
        IN  IF rep /\ ~allow_overwrites
            THEN [ret |-> RaiseMsg("MinydraWrongArgumentException", key.v),
                  out |-> acc.out]
            ELSE MapArgvLoop(args, i + 1, allow_overwrites, warn_overwrites,
                     [dict |-> DictSet(acc.dict, key, val),
                      out  |-> IF rep /\ warn_overwrites
                               THEN Append(acc.out, WarnRepeated(key.v))
                               ELSE acc.out])

\* map_argv that takes every repetition as allowed.
map_argv_overwrites_always_allowed(args, allow_overwrites, warn_overwrites) ==
    MapArgvLoop(args, 1, TRUE, warn_overwrites, [dict |-> <<>>, out |-> <<>>])

map_argv(args, allow_overwrites, warn_overwrites) ==
    MapArgvLoop(args, 1, allow_overwrites, warn_overwrites,
                [dict |-> <<>>, out |-> <<>>])

(***************************************************************************)
(* Parser.set_env                                                          *)
(***************************************************************************)
UpperSeq == <<"A", "B", "C", "D", "E", "F", "G", "H", "I", "J", "K", "L", "M",
              "N", "O", "P", "Q", "R", "S", "T", "U", "V", "W", "X", "Y", "Z">>
LowerSeq == <<"a", "b", "c", "d", "e", "f", "g", "h", "i", "j", "k", "l", "m",
              "n", "o", "p", "q", "r", "s", "t", "u", "v", "w", "x", "y", "z">>
Letters == {UpperSeq[i] : i \in 1..Len(UpperSeq)} \cup {LowerSeq[i] : i \in 1..Len(LowerSeq)}
DigitSeq == <<"0", "1", "2", "3", "4", "5", "6", "7", "8", "9">>
Digits == {DigitSeq[i] : i \in 1..Len(DigitSeq)}

\* The characters the regular expression class [\w_] matches.
WordChars == Letters \cup Digits \cup {"_"}

\* The length of the maximal run of word characters of s that starts at i.
RECURSIVE WordRun(_, _)
WordRun(s, i) == IF i <= Len(s) /\ s[i] \in WordChars THEN 1 + WordRun(s, i + 1) ELSE 0

\* re.findall(r"\$([\w_]+)", s) from index i on: the identifiers, in order.
RECURSIVE FindVars(_, _)
FindVars(s, i) ==
    IF i > Len(s) THEN <<>>
    ELSE IF s[i] = "$" /\ WordRun(s, i + 1) > 0
         THEN <<SubSeq(s, i + 1, i + WordRun(s, i + 1))>>
              \o FindVars(s, i + 1 + WordRun(s, i + 1))
         ELSE FindVars(s, i + 1)

\* os.getenv(name) in environment e.
GetEnv(e, name) == IF name \in DOMAIN e THEN e[name] ELSE PyNone

WarnEnv(name) == <<"Detected variable", name>>

\* The loop of set_env over arg_vars from index i on: acc is [value, out].
RECURSIVE SetEnvLoop(_, _, _, _, _)
SetEnvLoop(e, arg_vars, i, warn_env, acc) ==
    IF i > Len(arg_vars) THEN [ret |-> PyStr(acc.value), out |-> acc.out]
    ELSE
        LET arg_var == arg_vars[i]
            env_var == GetEnv(e, arg_var)
        IN  IF env_var = PyNone /\ warn_env
            THEN SetEnvLoop(e, arg_vars, i + 1, warn_env,
                     [value |-> acc.value, out |-> Append(acc.out, WarnEnv(arg_var))])
            ELSE IF env_var = PyNone
            \* str.replace(old, None)
            THEN [ret |-> Raise("TypeError"), out |-> acc.out]
            ELSE SetEnvLoop(e, arg_vars, i + 1, warn_env,
                     [value |-> StrReplace(acc.value, <<"$">> \o arg_var, env_var.v),
                      out |-> acc.out])

set_env(e, val, warn_env) ==
    IF ~IsStr(val) THEN [ret |-> val, out |-> <<>>]
    ELSE SetEnvLoop(e, FindVars(val.v, 1), 1, warn_env, [value |-> val.v, out |-> <<>>])

(***************************************************************************)
(* int(), float(), str.isdigit(), str.lower()                              *)
(***************************************************************************)
AllDigits(s) == \A i \in 1..Len(s) : s[i] \in Digits

\* str.isdigit(): at least one character, all of them digits.
IsDigit(s) == s # <<>> /\ AllDigits(s)

DigitVal(c) == (CHOOSE i \in 1..Len(DigitSeq) : DigitSeq[i] = c) - 1

\* int(s) for a string of digits (0 for the empty string).
RECURSIVE ToInt(_)
ToInt(s) == IF s = <<>> THEN 0 ELSE 10 * ToInt(SubSeq(s, 1, Len(s) - 1)) + DigitVal(s[Len(s)])

LowerChar(c) ==
    IF \E i \in 1..Len(UpperSeq) : UpperSeq[i] = c
    THEN LowerSeq[CHOOSE i \in 1..Len(UpperSeq) : UpperSeq[i] = c]
    ELSE c

Lower(s) == [i \in 1..Len(s) |-> LowerChar(s[i])]

\* A finite float m * 10^e in normal form: m has no trailing zero, 0 is <<0, 0>>.
RECURSIVE NormFloat(_, _)
NormFloat(m, e) ==
    IF m = 0 THEN [t |-> "float", v |-> <<"fin", 0, 0>>]
    ELSE IF m % 10 = 0 THEN NormFloat(m \div 10, e + 1)
    ELSE [t |-> "float", v |-> <<"fin", m, e>>]

FloatInf(sign) == [t |-> "float", v |-> <<"inf", sign, 0>>]
FloatNan == [t |-> "float", v |-> <<"nan", 0, 0>>]

\* Underscores between two digits are dropped (1_000); any other one stays and
\* makes the number malformed.
RECURSIVE DropUnderscores(_, _)
DropUnderscores(s, i) ==
    IF i > Len(s) THEN <<>>
    ELSE IF /\ s[i] = "_"
            /\ i > 1 /\ s[i - 1] \in Digits
            /\ i < Len(s) /\ s[i + 1] \in Digits
         THEN DropUnderscores(s, i + 1)
         ELSE <<s[i]>> \o DropUnderscores(s, i + 1)

\* The index of the first e or E of s, or 0.
ExponentMark(s) ==
    IF \E i \in 1..Len(s) : s[i] \in {"e", "E"}
    THEN CHOOSE i \in 1..Len(s) : s[i] \in {"e", "E"} /\ \A j \in 1..(i - 1) : s[j] \notin {"e", "E"}
    ELSE 0

\* The number of the integer digits ip, the fraction digits fp and the
\* exponent expo ([sign] digits, or empty when there is no e).
DecimalValue(ip, fp, expo, hasExp) ==
    With(IF expo # <<>> /\ Head(expo) \in {"+", "-"} THEN Tail(expo) ELSE expo,
         LAMBDA eDig :
             IF /\ AllDigits(ip) /\ AllDigits(fp)
                /\ Len(ip) + Len(fp) >= 1
                /\ (hasExp => IsDigit(eDig))
             THEN [ok |-> TRUE,
                   val |-> NormFloat(ToInt(ip \o fp),
                                     (IF expo # <<>> /\ Head(expo) = "-"
                                      THEN 0 - ToInt(eDig) ELSE ToInt(eDig)) - Len(fp))]
             ELSE [ok |-> FALSE, val |-> PyNone])

\* mant [e expo]: the mantissa is split at its first dot.
DecimalMantissa(mant, expo, hasExp) ==
    With(StrFind(mant, <<".">>, 1),
         LAMBDA dot :
             DecimalValue(IF dot = 0 THEN mant ELSE SubSeq(mant, 1, dot - 1),
                          IF dot = 0 THEN <<>> ELSE SubSeq(mant, dot + 1, Len(mant)),
                          expo, hasExp))

\* An unsigned decimal number: digits [. digits] [e [sign] digits].
DecimalParse(s0) ==
    With(DropUnderscores(s0, 1),
         LAMBDA s :
             With(ExponentMark(s),
                  LAMBDA ePos :
                      DecimalMantissa(IF ePos = 0 THEN s ELSE SubSeq(s, 1, ePos - 1),
                                      IF ePos = 0 THEN <<>> ELSE SubSeq(s, ePos + 1, Len(s)),
                                      ePos # 0)))

NegFloat(f) ==
    IF f.v[1] = "nan" THEN f
    ELSE [t |-> "float", v |-> <<f.v[1], 0 - f.v[2], f.v[3]>>]

\* float of an unsigned body: inf, infinity and nan in any case, or a decimal.
UnsignedFloat(body) ==
    With(Lower(body),
         LAMBDA low :
             IF low \in {<<"i", "n", "f">>, <<"i", "n", "f", "i", "n", "i", "t", "y">>}
             THEN [ok |-> TRUE, val |-> FloatInf(1)]
             ELSE IF low = <<"n", "a", "n">> THEN [ok |-> TRUE, val |-> FloatNan]
             ELSE DecimalParse(body))

\* float(s): [ok, val]; not ok is the ValueError.
FloatParse(s0) ==
    With(Strip(s0),
         LAMBDA s :
             With(UnsignedFloat(IF s # <<>> /\ Head(s) \in {"+", "-"} THEN Tail(s) ELSE s),
                  LAMBDA r :
                      IF r.ok /\ s # <<>> /\ Head(s) = "-"
                      THEN [ok |-> TRUE, val |-> NegFloat(r.val)]
                      ELSE r))

(***************************************************************************)
(* ast.literal_eval: a recursive descent over the characters.  A name that *)
(* is not True, False or None parses (it is valid syntax) to a "name" node,*)
(* which the conversion then rejects with ValueError.                      *)
(***************************************************************************)
PySet(xs) == [t |-> "set", v |-> xs]
NameNode(s) == [t |-> "name", v |-> s]

ParseFail == [ok |-> FALSE, val |-> PyNone, pos |-> 0, comma |-> FALSE]
ParseOk(val, pos) == [ok |-> TRUE, val |-> val, pos |-> pos, comma |-> FALSE]

RECURSIVE SkipWs(_, _)
SkipWs(s, i) == IF i <= Len(s) /\ s[i] \in Whitespace THEN SkipWs(s, i + 1) ELSE i

\* The length of the run of characters of a number or a name that starts at i.
RECURSIVE TokenRun(_, _)
TokenRun(s, i) ==
    IF i > Len(s) THEN 0
    ELSE IF s[i] \in WordChars \cup {"."} THEN 1 + TokenRun(s, i + 1)
    ELSE IF s[i] \in {"+", "-"} /\ i > 1 /\ s[i - 1] \in {"e", "E"}
            /\ TokenRun(s, i + 1) > 0 /\ s[i + 1] \in Digits
         THEN 1 + TokenRun(s, i + 1)
    ELSE 0

\* A number token: an integer (no leading zero unless it is zero) or a float.
NumberToken(tok, plain, next) ==
    IF IsDigit(plain)
    THEN IF Len(plain) > 1 /\ Head(plain) = "0" /\ ToInt(plain) # 0
         THEN ParseFail
         ELSE ParseOk(PyInt(ToInt(plain)), next)
    ELSE With(DecimalParse(tok),
              LAMBDA f : IF f.ok THEN ParseOk(f.val, next) ELSE ParseFail)

ParseNumber(s, i) ==
    With(TokenRun(s, i),
         LAMBDA n :
             With(SubSeq(s, i, i + n - 1),
                  LAMBDA tok : NumberToken(tok, DropUnderscores(tok, 1), i + n)))

NameToken(tok, next) ==
    IF \E k \in 1..Len(tok) : tok[k] = "." THEN ParseFail
    ELSE IF tok = <<"T", "r", "u", "e">> THEN ParseOk(PyBool(TRUE), next)
    ELSE IF tok = <<"F", "a", "l", "s", "e">> THEN ParseOk(PyBool(FALSE), next)
    ELSE IF tok = <<"N", "o", "n", "e">> THEN ParseOk(PyNone, next)
    ELSE ParseOk(NameNode(tok), next)

ParseName(s, i) ==
    With(TokenRun(s, i), LAMBDA n : NameToken(SubSeq(s, i, i + n - 1), i + n))

\* A quoted string without escapes: up to the next quote of the same kind.
ParseString(s, i) ==
    With(StrFind(s, <<s[i]>>, i + 1),
         LAMBDA j : IF j = 0 THEN ParseFail ELSE ParseOk(PyStr(SubSeq(s, i + 1, j - 1)), j + 1))

\* -x and +x of a number x.
Signed(sign, x) ==
    IF x.t = "int" THEN (IF sign = "-" THEN PyInt(0 - x.v) ELSE x)
    ELSE IF sign = "-" THEN NegFloat(x) ELSE x

RECURSIVE Parse(_, _, _, _, _)

\* Expressions separated by commas up to the closing character: val is the
\* sequence of them, comma tells whether a comma was seen.
ParseSeq(s, i, closer, acc) == Parse("seq", s, i, closer, acc)

\* key: value pairs separated by commas up to the closing brace.
ParsePairs(s, i, acc) == Parse("pairs", s, i, "}", acc)

\* x[...] and x(...) after the expression parsed as r are valid syntax and
\* no literal.
Postfix(s, r) == Parse("postfix", s, 0, "", r)

\* One operand: a display, a string, a signed number, a number or a name.
ParseAtom(s, i0) == Parse("atom", s, i0, "", <<>>)

ParseExpr(s, i0) == Postfix(s, ParseAtom(s, i0))

\* After the element r of a sequence: a comma and the rest, or the closer.
AfterElement(s, r, k, closer, acc) ==
    IF ~r.ok \/ k > Len(s) THEN ParseFail
    ELSE IF s[k] = "," THEN ParseSeq(s, k + 1, closer, Append(acc, r.val))
    ELSE IF s[k] = closer
    THEN [ok |-> TRUE, val |-> Append(acc, r.val), pos |-> k + 1, comma |-> acc # <<>>]
    ELSE ParseFail

\* After the value rv of the pair of key rk: a comma and the rest, or the brace.
AfterPair(s, rk, rv, k, acc) ==
    IF ~rv.ok \/ k > Len(s) THEN ParseFail
    ELSE IF s[k] = "," THEN ParsePairs(s, k + 1, Append(acc, <<rk.val, rv.val>>))
    ELSE IF s[k] = "}" THEN ParseOk(Append(acc, <<rk.val, rv.val>>), k + 1)
    ELSE ParseFail

\* After the key rk of a pair: the colon at c and the value.
AfterKey(s, rk, c, acc) ==
    IF ~rk.ok \/ c > Len(s) \/ s[c] # ":" THEN ParseFail
    ELSE With(ParseExpr(s, c + 1),
              LAMBDA rv : AfterPair(s, rk, rv, SkipWs(s, rv.pos), acc))

\* The subscript or call a that follows an expression, opened at k.
AfterPostfix(s, k, a) ==
    IF ~a.ok \/ (s[k] = "[" /\ a.val = <<>>) THEN ParseFail
    ELSE Postfix(s, ParseOk(NameNode(<<s[k]>>), a.pos))

\* A parenthesised sequence r: one element without a comma is that element.
ParenValue(r) ==
    IF ~r.ok THEN ParseFail
    ELSE IF Len(r.val) = 1 /\ ~r.comma THEN ParseOk(r.val[1], r.pos)
    ELSE ParseOk(PyTuple(r.val), r.pos)

\* What follows "{": pairs (rd), or else the elements of a set.
BraceValue(s, i, rd) ==
    IF rd.ok THEN ParseOk([t |-> "dictnode", v |-> rd.val], rd.pos)
    ELSE With(ParseSeq(s, i + 1, "}", <<>>),
              LAMBDA rs : IF rs.ok /\ rs.val # <<>> THEN ParseOk(PySet(rs.val), rs.pos)
                          ELSE ParseFail)

\* The operand r after the sign at i; j is where the operand starts.
SignedValue(s, i, j, r) ==
    IF ~r.ok THEN ParseFail
    ELSE IF s[j] \in Digits \cup {"."} THEN ParseOk(Signed(s[i], r.val), r.pos)
    ELSE ParseOk(NameNode(<<s[i]>>), r.pos)

\* The operand that starts at i.
AtomAt(s, i) ==
    IF i > Len(s) THEN ParseFail
    ELSE IF s[i] = "["
    THEN With(ParseSeq(s, i + 1, "]", <<>>),
              LAMBDA r : IF r.ok THEN ParseOk(PyList(r.val), r.pos) ELSE ParseFail)
    ELSE IF s[i] = "(" THEN ParenValue(ParseSeq(s, i + 1, ")", <<>>))
    ELSE IF s[i] = "{" THEN BraceValue(s, i, ParsePairs(s, i + 1, <<>>))
    ELSE IF s[i] \in {"'", "\""} THEN ParseString(s, i)
    ELSE IF s[i] \in {"-", "+"}
    THEN With(SkipWs(s, i + 1), LAMBDA j : SignedValue(s, i, j, ParseAtom(s, j)))
    ELSE IF s[i] \in Digits \cup {"."} THEN ParseNumber(s, i)
    ELSE IF s[i] \in Letters \cup {"_"} THEN ParseName(s, i)
    ELSE ParseFail

\* The elements of a sequence from j on.
SeqAt(s, j, closer, acc) ==
    IF j > Len(s) THEN ParseFail
    ELSE IF s[j] = closer
    THEN [ok |-> TRUE, val |-> acc, pos |-> j + 1, comma |-> acc # <<>>]
    ELSE With(ParseExpr(s, j),
              LAMBDA r : AfterElement(s, r, SkipWs(s, r.pos), closer, acc))

\* The pairs of a dict display from j on.
PairsAt(s, j, acc) ==
    IF j > Len(s) THEN ParseFail
    ELSE IF s[j] = "}" THEN ParseOk(acc, j + 1)
    ELSE With(ParseExpr(s, j), LAMBDA rk : AfterKey(s, rk, SkipWs(s, rk.pos), acc))

\* What may follow the expression r, from k on.
PostfixAt(s, r, k) ==
    IF ~r.ok \/ k > Len(s) \/ s[k] \notin {"[", "("} THEN r
    ELSE AfterPostfix(s, k, ParseSeq(s, k + 1, IF s[k] = "[" THEN "]" ELSE ")", <<>>))

\* The recursive descent; what tells which production is parsed.
Parse(what, s, i0, closer, acc) ==
    IF what = "seq" THEN SeqAt(s, SkipWs(s, i0), closer, acc)
    ELSE IF what = "pairs" THEN PairsAt(s, SkipWs(s, i0), acc)
    ELSE IF what = "postfix" THEN PostfixAt(s, acc, SkipWs(s, acc.pos))
    ELSE AtomAt(s, SkipWs(s, i0))

\* Whether the parsed expression holds a node that is not a literal.
RECURSIVE HasName(_)
HasName(x) ==
    IF x.t = "name" THEN TRUE
    ELSE IF x.t \in {"list", "tuple", "set"} THEN \E i \in 1..Len(x.v) : HasName(x.v[i])
    ELSE IF x.t = "dictnode"
         THEN \E i \in 1..Len(x.v) : HasName(x.v[i][1]) \/ HasName(x.v[i][2])
    ELSE FALSE

RECURSIVE Hashable(_)
Hashable(x) ==
    IF x.t \in {"list", "dict", "dictnode", "set", "miny"} THEN FALSE
    ELSE IF x.t = "tuple" THEN \A i \in 1..Len(x.v) : Hashable(x.v[i])
    ELSE TRUE

\* Whether building the value puts an unhashable value in a set or under a key.
RECURSIVE HasUnhashable(_)
HasUnhashable(x) ==
    IF x.t \in {"list", "tuple"} THEN \E i \in 1..Len(x.v) : HasUnhashable(x.v[i])
    ELSE IF x.t = "set"
         THEN \E i \in 1..Len(x.v) : ~Hashable(x.v[i]) \/ HasUnhashable(x.v[i])
    ELSE IF x.t = "dictnode"
         THEN \E i \in 1..Len(x.v) :
                  \/ ~Hashable(x.v[i][1])
                  \/ HasUnhashable(x.v[i][1]) \/ HasUnhashable(x.v[i][2])
    ELSE FALSE

RECURSIVE BuildValue(_)
RECURSIVE BuildPairs(_, _, _)
BuildPairs(pairs, i, acc) ==
    IF i > Len(pairs) THEN acc
    ELSE BuildPairs(pairs, i + 1,
                    DictSet(acc, BuildValue(pairs[i][1]), BuildValue(pairs[i][2])))

\* The Python value of a parsed expression of literals.
BuildValue(x) ==
    IF x.t \in {"list", "tuple", "set"}
    THEN [t |-> x.t, v |-> [i \in 1..Len(x.v) |-> BuildValue(x.v[i])]]
    ELSE IF x.t = "dictnode" THEN PyDict(BuildPairs(x.v, 1, <<>>))
    ELSE x

\* ast.literal_eval(s): the value, or the exception raised.  A top-level
\* a, b is a tuple.
LiteralValue(node) ==
    IF HasName(node) THEN Raise("ValueError")
    ELSE IF HasUnhashable(node) THEN Raise("TypeError")
    ELSE BuildValue(node)

LiteralEval(s) ==
    With(ParseSeq(LStrip(s) \o <<"\n">>, 1, "\n", <<>>),
         LAMBDA r :
             IF ~r.ok \/ r.val = <<>> THEN Raise("SyntaxError")
             ELSE LiteralValue(IF Len(r.val) = 1 /\ ~r.comma THEN r.val[1]
                               ELSE PyTuple(r.val)))

\* The names of Parser.known_types.
known_types ==
    {<<"b", "o", "o", "l">>, <<"i", "n", "t">>, <<"f", "l", "o", "a", "t">>, <<"s", "t", "r">>}

(***************************************************************************)
(* Parser._force_type and Parser._infer_arg_type                           *)
(***************************************************************************)
\* int(x) of a float: truncation toward zero; inf and nan raise.
FloatToInt(f) ==
    IF f.v[1] = "inf" THEN Raise("OverflowError")
    ELSE IF f.v[1] = "nan" THEN Raise("ValueError")
    ELSE IF f.v[3] >= 0 THEN PyInt(f.v[2] * Pow10(f.v[3]))
    ELSE IF f.v[2] >= 0 THEN PyInt(f.v[2] \div Pow10(0 - f.v[3]))
    ELSE PyInt(0 - ((0 - f.v[2]) \div Pow10(0 - f.v[3])))

\* float(value), or the ValueError.
ToFloat(val) ==
    With(FloatParse(val.v), LAMBDA f : IF f.ok THEN f.val ELSE Raise("ValueError"))

_force_type(val, type_str) ==
    IF type_str = <<"b", "o", "o", "l">> THEN PyBool(val.v # <<>>)
    ELSE IF type_str \in {<<"i", "n", "t">>, <<"f", "l", "o", "a", "t">>}
         THEN With(ToFloat(val),
                   LAMBDA f : IF type_str = <<"i", "n", "t">> /\ ~IsRaise(f)
                              THEN FloatToInt(f) ELSE f)
    ELSE IF type_str = <<"s", "t", "r">> THEN val
    ELSE PyNone

\* What iterating over a value yields, or the TypeError.
IterItems(x) ==
    IF x.t \in {"list", "tuple", "set"} THEN PyList(x.v)
    ELSE IF x.t = "dict" THEN PyList([i \in 1..Len(x.v) |-> x.v[i][1]])
    ELSE IF x.t = "str" THEN PyList([i \in 1..Len(x.v) |-> PyStr(<<x.v[i]>>)])
    ELSE Raise("TypeError")

RECURSIVE _infer_arg_type(_, _)
RECURSIVE InferList(_, _, _)
RECURSIVE InferDict(_, _, _)

\* [_infer_arg_type(v) for v in xs] from index i on; the first exception leaves.
InferList(xs, i, acc) ==
    IF i > Len(xs) THEN PyList(acc)
    ELSE With(_infer_arg_type(xs[i], PyNone),
              LAMBDA e : IF IsRaise(e) THEN e ELSE InferList(xs, i + 1, Append(acc, e)))

\* The pair of the inferred key k and the inferred value v joins acc.
InferPair(pairs, i, acc, k, v) ==
    IF IsRaise(v) THEN v
    ELSE IF ~Hashable(k) THEN Raise("TypeError")
    ELSE InferDict(pairs, i + 1, DictSet(acc, k, v))

\* {_infer_arg_type(k): _infer_arg_type(v) for k, v in pairs} from index i on.
InferDict(pairs, i, acc) ==
    IF i > Len(pairs) THEN PyDict(acc)
    ELSE With(_infer_arg_type(pairs[i][1], PyNone),
              LAMBDA k : IF IsRaise(k) THEN k
                         ELSE InferPair(pairs, i, acc, k,
                                        _infer_arg_type(pairs[i][2], PyNone)))

\* [... for v in lit]: lit is what literal_eval returned or raised.
InferElements(lit) ==
    IF IsRaise(lit) THEN lit
    ELSE With(IterItems(lit), LAMBDA it : IF IsRaise(it) THEN it ELSE InferList(it.v, 1, <<>>))

\* {... for k, v in lit.items()}
InferItems(lit) ==
    IF IsRaise(lit) THEN lit
    ELSE IF lit.t # "dict" THEN Raise("AttributeError")
    ELSE InferDict(lit.v, 1, <<>>)

\* The inference for a string that is no number: f is what float(arg) gave.
InferString(arg, f) ==
    IF f.ok THEN f.val
    ELSE IF Lower(arg.v) = <<"t", "r", "u", "e">> THEN PyBool(TRUE)
    ELSE IF Lower(arg.v) = <<"f", "a", "l", "s", "e">> THEN PyBool(FALSE)
    ELSE IF StartsWith(arg.v, <<"[">>) /\ EndsWith(arg.v, <<"]">>)
    THEN InferElements(LiteralEval(arg.v))
    ELSE IF StartsWith(arg.v, <<"{">>) /\ EndsWith(arg.v, <<"}">>)
    THEN InferItems(LiteralEval(arg.v))
    ELSE arg

_infer_arg_type(arg, type_str) ==
    IF ~IsStr(arg) THEN arg
    ELSE IF type_str # PyNone THEN _force_type(arg, type_str.v)
    ELSE IF IsDigit(arg.v) THEN PyInt(ToInt(arg.v))
    ELSE InferString(arg, FloatParse(arg.v))

(***************************************************************************)
(* Parser.parse_arg_types                                                  *)
(***************************************************************************)
\* bool(x), as `if x:` and `x or y` take it.
Truthy(x) ==
    IF x.t = "bool" THEN x.v
    ELSE IF x.t = "int" THEN x.v # 0
    ELSE IF x.t = "float" THEN x.v[1] # "fin" \/ x.v[2] # 0
    ELSE IF x.t = "none" THEN FALSE
    ELSE x.v # <<>>

type_separator == <<"_", "_", "_">>

\* The key and the type a key k of args stands for, or the exception: the
\* key is split on the separator, and the split names a type when its
\* second part is a known type.
TypedKey(k) ==
    \* `Parser.type_separator in k` for a key that is no string
    IF ~IsStr(k) THEN Raise("TypeError")
    ELSE IF ~StrIn(type_separator, k.v) THEN [t |-> "key", key |-> k, type_str |-> PyNone]
    ELSE With(StrSplit(k.v, type_separator),
              LAMBDA parts :
                  \* candidate_k, candidate_type_str = k.split(...)
                  IF Len(parts) # 2 THEN Raise("ValueError")
                  ELSE IF parts[2] \in known_types
                  THEN [t |-> "key", key |-> PyStr(parts[1]), type_str |-> PyStr(parts[2])]
                  ELSE [t |-> "key", key |-> k, type_str |-> PyNone])

RECURSIVE ParseArgTypesLoop(_, _, _, _, _, _)

\* One pair of the loop: r is the value after set_env, out the output so
\* far, tk the key and type of the pair.
TypedEntry(e, pairs, i, parse_env, warn_env, acc, r, out, tk) ==
    IF IsRaise(r.ret) THEN [ret |-> r.ret, out |-> out]
    ELSE IF IsRaise(tk) THEN [ret |-> tk, out |-> out]
    ELSE With(_infer_arg_type(r.ret, tk.type_str),
              LAMBDA typed :
                  IF IsRaise(typed) THEN [ret |-> typed, out |-> out]
                  ELSE ParseArgTypesLoop(e, pairs, i + 1, parse_env, warn_env,
                           [typed |-> DictSet(acc.typed, tk.key, typed), out |-> out]))

\* The loop of parse_arg_types over args.items() from index i on, in
\* environment e: acc is [typed, out].
ParseArgTypesLoop(e, pairs, i, parse_env, warn_env, acc) ==
    IF i > Len(pairs) THEN [ret |-> PyDict(acc.typed), out |-> acc.out]
    ELSE With(IF parse_env THEN set_env(e, pairs[i][2], warn_env)
              ELSE [ret |-> pairs[i][2], out |-> <<>>],
              LAMBDA r : TypedEntry(e, pairs, i, parse_env, warn_env, acc, r,
                                    acc.out \o r.out, TypedKey(pairs[i][1])))

parse_arg_types(e, args, parse_env, warn_env) ==
    ParseArgTypesLoop(e, args.v, 1, parse_env, warn_env, [typed |-> <<>>, out |-> <<>>])

(***************************************************************************)
(* MinyDict.  Every mutator returns [obj, err]: the object as the call     *)
(* left it (the calls work in place, so a call that raises leaves what it  *)
(* had already written) and the name of the exception, "" for none.        *)
(* __setitem__ stores MinyDict(value) for every dict value, a new object,  *)
(* so no two keys of a tree ever hold the same nested MinyDict object and  *)
(* a tree is modelled by its value.                                        *)
(***************************************************************************)
MkMiny(items, frozen) == [t |-> "miny", v |-> items, frozen |-> frozen]

IsDictLike(x) == x.t \in {"dict", "miny"}
IsMiny(x) == x.t = "miny"

Done(obj) == [obj |-> obj, err |-> ""]
Failed(obj, err) == [obj |-> obj, err |-> err]

\* self.v with the value under key k rewritten in place (no __setitem__).
PutRaw(self, k, val) == [self EXCEPT !.v = DictSet(self.v, k, val)]

RECURSIVE MinyInit(_, _)
RECURSIVE _hook(_)
RECURSIVE StoredValue(_)
RECURSIVE _resolve_nests(_)
RECURSIVE InitLoop(_, _, _)
RECURSIVE NestsLoop(_, _, _)

\* MinyDict._hook
_hook(item) ==
    IF IsMiny(item) THEN item
    ELSE IF item.t = "dict" THEN MinyInit(item, <<>>)
    ELSE IF item.t \in {"list", "tuple"}
         THEN [t |-> item.t, v |-> [i \in 1..Len(item.v) |-> _hook(item.v[i])]]
    ELSE item

\* An assignment that stores the value as it is given.
StoredValue_as_given(val) == val

\* What __setitem__ stores for value: MinyDict(value)._resolve_nests() for a dict.
StoredValue(val) ==
    IF IsDictLike(val) THEN _resolve_nests(MinyInit(val, <<>>)).obj ELSE val

\* MinyDict.__setitem__
__setitem__(self, name, val) ==
    IF self.frozen THEN Failed(self, "AttributeError")
    ELSE Done(PutRaw(self, name, StoredValue(val)))

\* self[key] = self._hook(val) for the pairs from index i on (self is new, unfrozen).
InitLoop(self, pairs, i) ==
    IF i > Len(pairs) THEN self
    ELSE InitLoop(__setitem__(self, pairs[i][1], _hook(pairs[i][2])).obj, pairs, i + 1)

\* MinyDict(arg, **kwargs) for a mapping arg; an empty arg is skipped.
MinyInit(arg, kwargs) ==
    InitLoop(InitLoop(MkMiny(<<>>, FALSE), arg.v, 1), kwargs, 1)

\* The loop of _resolve_nests over list(self.keys()) from index i on.
NestsLoop(self, keys, i) ==
    IF i > Len(keys) THEN Done(self)
    ELSE IF IsDictLike(DictGet(self.v, keys[i]))
    THEN With(__setitem__(self, keys[i],
                          _resolve_nests(MinyInit(DictGet(self.v, keys[i]), <<>>)).obj),
              LAMBDA r : IF r.err # "" THEN r ELSE NestsLoop(r.obj, keys, i + 1))
    ELSE NestsLoop(self, keys, i + 1)

KeyList(self) == [i \in 1..Len(self.v) |-> self.v[i][1]]

\* MinyDict._resolve_nests
_resolve_nests(self) == NestsLoop(self, KeyList(self), 1)

(***************************************************************************)
(* MinyDict.update                                                         *)
(***************************************************************************)
RECURSIVE PlainUpdate(_, _, _)
\* dict.update(pairs) on the pairs of a plain dict.
PlainUpdate(items, pairs, i) ==
    IF i > Len(pairs) THEN items
    ELSE PlainUpdate(DictSet(items, pairs[i][1], pairs[i][2]), pairs, i + 1)

RECURSIVE update(_, _, _, _)
RECURSIVE UpdateLoop(_, _, _, _)

\* An update that replaces a nested map by the incoming one instead of merging.
UpdateItem_replaces_nested_map(self, pairs, i, strict, k, v, cur) ==
    IF strict /\ ~DictHas(self.v, k) THEN Failed(self, "KeyError")
    ELSE With(__setitem__(self, k, v),
              LAMBDA r : IF r.err # "" THEN r ELSE UpdateLoop(r.obj, pairs, i + 1, strict))

\* An update whose recursion into a nested map is never strict.
UpdateItem_nested_never_strict(self, pairs, i, strict, k, v, cur) ==
    IF strict /\ ~DictHas(self.v, k) THEN Failed(self, "KeyError")
    ELSE IF ~DictHas(self.v, k) \/ ~IsDictLike(cur) \/ ~IsDictLike(v)
    THEN With(__setitem__(self, k, v),
              LAMBDA r : IF r.err # "" THEN r ELSE UpdateLoop(r.obj, pairs, i + 1, strict))
    ELSE With(update(cur, v, <<>>, FALSE),
              LAMBDA r : IF r.err # "" THEN Failed(PutRaw(self, k, r.obj), r.err)
                         ELSE UpdateLoop(PutRaw(self, k, r.obj), pairs, i + 1, strict))

\* One pair k, v of the loop of update; cur is self.get(k).
UpdateItem(self, pairs, i, strict, k, v, cur) ==
    IF strict /\ ~DictHas(self.v, k) THEN Failed(self, "KeyError")
    ELSE IF ~DictHas(self.v, k) \/ ~IsDictLike(cur) \/ ~IsDictLike(v)
    THEN With(__setitem__(self, k, v),
              LAMBDA r : IF r.err # "" THEN r ELSE UpdateLoop(r.obj, pairs, i + 1, strict))
    ELSE IF IsMiny(cur)
    THEN With(update(cur, v, <<>>, strict),
              LAMBDA r : IF r.err # "" THEN Failed(PutRaw(self, k, r.obj), r.err)
                         ELSE UpdateLoop(PutRaw(self, k, r.obj), pairs, i + 1, strict))
    \* a plain dict under the key: dict.update(v, strict=strict)
    ELSE UpdateLoop(
             PutRaw(self, k, PyDict(DictSet(PlainUpdate(cur.v, v.v, 1),
                                           PyStr(<<"s", "t", "r", "i", "c", "t">>),
                                           PyBool(strict)))),
             pairs, i + 1, strict)

\* The loop of update over other.items() from index i on.
UpdateLoop(self, pairs, i, strict) ==
    IF i > Len(pairs) THEN Done(self)
    ELSE UpdateItem(self, pairs, i, strict, pairs[i][1], pairs[i][2],
                    DictGet(self.v, pairs[i][1]))

\* MinyDict.update(arg, strict=strict, **kwargs): other is a plain dict of
\* arg's pairs, then the keyword pairs.
update(self, arg, kwargs, strict) ==
    UpdateLoop(self, PlainUpdate(PlainUpdate(<<>>, arg.v, 1), kwargs, 1), 1, strict)

(***************************************************************************)
(* MinyDict.resolve                                                        *)
(***************************************************************************)
RECURSIVE _resolve_dots(_)
RECURSIVE DotsLoop(_, _, _)
RECURSIVE WalkSet(_, _, _)

\* The walk below the sub-key sk of node dn, whose value was resolved in
\* place as rc: the value is stored again, then the walk goes on from it.
WalkResolved(sk, dn, rc, rest, val) ==
    IF rc.err # "" THEN Failed(PutRaw(dn, sk, rc.obj), rc.err)
    ELSE With(__setitem__(PutRaw(dn, sk, rc.obj), sk, rc.obj),
              LAMBDA r2 :
                  IF r2.err # "" THEN r2
                  ELSE With(WalkSet(DictGet(r2.obj.v, sk), rest, val),
                            LAMBDA r3 : [obj |-> PutRaw(r2.obj, sk, r3.obj),
                                         err |-> r3.err]))

\* The walk after the level of sub-key sk was created where it was missing
\* (r1): the value under sk must be a MinyDict, and is resolved.
WalkInto(sk, r1, rest, val) ==
    IF r1.err # "" THEN r1
    ELSE IF ~IsMiny(DictGet(r1.obj.v, sk)) THEN Failed(r1.obj, "TypeError")
    ELSE WalkResolved(sk, r1.obj, _resolve_dots(DictGet(r1.obj.v, sk)), rest, val)

\* The walk of _resolve_dots along the sub-keys from node dn (`d` in the
\* code): create or resolve each intermediate level, assign val at the last.
\* A node that is no MinyDict supports none of this: TypeError.
WalkSet(dn, segs, val) ==
    IF ~IsMiny(dn) THEN Failed(dn, "TypeError")
    ELSE IF Len(segs) = 1 THEN __setitem__(dn, PyStr(segs[1]), val)
    ELSE WalkInto(PyStr(segs[1]),
                  IF ~DictHas(dn.v, PyStr(segs[1]))
                  THEN __setitem__(dn, PyStr(segs[1]), MkMiny(<<>>, FALSE))
                  ELSE Done(dn),
                  Tail(segs), val)

\* A walk that leaves the dotted key in the map.
DotsKey_keeps_key(self, keys, i, k, val) ==
    IF ~IsStr(k) \/ ~StrIn(<<".">>, k.v) THEN DotsLoop(self, keys, i + 1)
    ELSE With(WalkSet(self, StrSplit(k.v, <<".">>), val),
              LAMBDA r2 : IF r2.err # "" THEN r2 ELSE DotsLoop(r2.obj, keys, i + 1))

\* The key k of the loop, whose value is val: a dotted key is walked and
\* deleted.
DotsKey(self, keys, i, k, val) ==
    IF ~IsStr(k) \/ ~StrIn(<<".">>, k.v) THEN DotsLoop(self, keys, i + 1)
    ELSE With(WalkSet(self, StrSplit(k.v, <<".">>), val),
              LAMBDA r2 : IF r2.err # "" THEN r2
                          ELSE DotsLoop([r2.obj EXCEPT !.v = DictDel(r2.obj.v, k)],
                                        keys, i + 1))

\* The MinyDict value under k was resolved in place as rv, then self[k] = v.
DotsValue(self, keys, i, k, rv) ==
    IF rv.err # "" THEN Failed(PutRaw(self, k, rv.obj), rv.err)
    ELSE With(__setitem__(PutRaw(self, k, rv.obj), k, rv.obj),
              LAMBDA r1 : IF r1.err # "" THEN r1
                          ELSE DotsKey(r1.obj, keys, i, k, rv.obj))

\* The loop of _resolve_dots over list(self.keys()) from index i on.
DotsLoop(self, keys, i) ==
    IF i > Len(keys) THEN Done(self)
    ELSE IF IsMiny(DictGet(self.v, keys[i]))
    THEN DotsValue(self, keys, i, keys[i], _resolve_dots(DictGet(self.v, keys[i])))
    ELSE DotsKey(self, keys, i, keys[i], DictGet(self.v, keys[i]))

\* MinyDict._resolve_dots
_resolve_dots(self) == IF IsMiny(self) THEN DotsLoop(self, KeyList(self), 1) ELSE Done(self)

\* MinyDict.resolve: self._resolve_nests()._resolve_dots()
resolve(self) ==
    With(_resolve_nests(self), LAMBDA r : IF r.err # "" THEN r ELSE _resolve_dots(r.obj))

\* A freeze that does not reach the maps nested in self.
freeze_root_only(self, shouldFreeze) == [self EXCEPT !.frozen = shouldFreeze]

\* MinyDict.freeze(shouldFreeze): the flag of self and of every MinyDict that
\* is a value of self, recursively.
RECURSIVE freeze(_, _)
freeze(self, shouldFreeze) ==
    [t |-> "miny", frozen |-> shouldFreeze,
     v |-> [i \in 1..Len(self.v) |->
               <<self.v[i][1],
                 IF IsMiny(self.v[i][2]) THEN freeze(self.v[i][2], shouldFreeze)
                 ELSE self.v[i][2]>>]]

(***************************************************************************)
(* MinyDict.__setattr__, deepcopy, pop                                     *)
(***************************************************************************)
\* The names hasattr(MinyDict, name) holds for, among the names used here.
ProtectedNames ==
    {<<"u", "p", "d", "a", "t", "e">>, <<"k", "e", "y", "s">>, <<"i", "t", "e", "m", "s">>, <<"v", "a", "l", "u", "e", "s">>, <<"c", "o", "p", "y">>, <<"d", "e", "e", "p", "c", "o", "p", "y">>, <<"r", "e", "s", "o", "l", "v", "e">>,
     <<"f", "r", "e", "e", "z", "e">>, <<"u", "n", "f", "r", "e", "e", "z", "e">>, <<"p", "o", "p">>, <<"g", "e", "t">>, <<"c", "l", "e", "a", "r">>, <<"t", "o", "_", "d", "i", "c", "t">>, <<"p", "r", "e", "t", "t", "y", "_", "p", "r", "i", "n", "t">>,
     <<"_", "h", "o", "o", "k">>, <<"_", "f", "r", "o", "z", "e", "n">>, <<"_", "r", "e", "s", "o", "l", "v", "e", "_", "n", "e", "s", "t", "s">>, <<"_", "r", "e", "s", "o", "l", "v", "e", "_", "d", "o", "t", "s">>, <<"s", "e", "t", "d", "e", "f", "a", "u", "l", "t">>,
     <<"p", "o", "p", "i", "t", "e", "m">>, <<"f", "r", "o", "m", "k", "e", "y", "s">>, <<"f", "r", "o", "m", "_", "j", "s", "o", "n">>, <<"f", "r", "o", "m", "_", "y", "a", "m", "l">>, <<"f", "r", "o", "m", "_", "p", "i", "c", "k", "l", "e">>,
     <<"t", "o", "_", "j", "s", "o", "n">>, <<"t", "o", "_", "y", "a", "m", "l">>, <<"t", "o", "_", "p", "i", "c", "k", "l", "e">>, <<"_", "_", "i", "n", "i", "t", "_", "_">>, <<"_", "_", "d", "i", "c", "t", "_", "_">>}

\* An assignment by attribute that protects no name.
__setattr___unprotected(self, name, val) == __setitem__(self, PyStr(name), val)

\* MinyDict.__setattr__
__setattr__(self, name, val) ==
    IF name \in ProtectedNames THEN Failed(self, "AttributeError")
    ELSE __setitem__(self, PyStr(name), val)

\* __getitem__ = dict.get: the value under k, or None.
__getitem__(self, k) == IF DictHas(self.v, k) THEN DictGet(self.v, k) ELSE PyNone

\* __getattr__ = dict.get, called when the normal attribute lookup fails.
__getattr__(self, name) == __getitem__(self, PyStr(name))

\* The method or class attribute of MinyDict called name.
Method(name) == [t |-> "method", v |-> name]

\* self.name: the instance attribute _frozen, a method or class attribute,
\* or else what __getattr__ returns.
getattr(self, name) ==
    IF name = <<"_", "f", "r", "o", "z", "e", "n">> THEN PyBool(self.frozen)
    ELSE IF name \in ProtectedNames THEN Method(name)
    ELSE __getattr__(self, name)

\* dict.__delitem__, which MinyDict inherits: no check of the frozen flag.
__delitem__(self, k) ==
    IF DictHas(self.v, k) THEN Done([self EXCEPT !.v = DictDel(self.v, k)])
    ELSE Failed(self, "KeyError")

\* __delattr__ = dict.__delitem__
__delattr__(self, name) == __delitem__(self, PyStr(name))

\* copy.deepcopy of a value: every MinyDict in it is built anew by
\* __deepcopy__, unfrozen.
RECURSIVE DeepCopyValue(_)
DeepCopyValue(x) ==
    IF x.t = "miny"
    THEN MkMiny([i \in 1..Len(x.v) |-> <<DeepCopyValue(x.v[i][1]), DeepCopyValue(x.v[i][2])>>],
                FALSE)
    ELSE IF x.t = "dict"
    THEN PyDict([i \in 1..Len(x.v) |-> <<DeepCopyValue(x.v[i][1]), DeepCopyValue(x.v[i][2])>>])
    ELSE IF x.t \in {"list", "tuple"}
    THEN [t |-> x.t, v |-> [i \in 1..Len(x.v) |-> DeepCopyValue(x.v[i])]]
    ELSE x

\* MinyDict.deepcopy
deepcopy(self) == DeepCopyValue(self)

\* dict.pop(k, None): no check of the frozen flag.
Pop(self, k) == [self EXCEPT !.v = DictDel(self.v, k)]

(***************************************************************************)
(* Parser.load_defaults, _parse_conf, _parse_args, __init__                *)
(***************************************************************************)
RECURSIVE load_defaults(_)
RECURSIVE LoadEach(_, _, _)

\* default.update(d, strict=False) for the loaded elements of a list of
\* defaults, from index i on; the first element that fails to load leaves.
LoadEach(xs, i, acc) ==
    IF i > Len(xs) THEN Done(acc)
    ELSE With(load_defaults(xs[i]),
              LAMBDA r : IF r.err # "" THEN r
                         ELSE LoadEach(xs, i + 1, update(acc, r.obj, <<>>, FALSE).obj))

\* Parser.load_defaults.  No file exists at any path: a path fails the
\* assertion that the file exists.
load_defaults(default) ==
    IF IsStr(default) THEN Failed(default, "AssertionError")
    ELSE IF IsDictLike(default) THEN resolve(MinyInit(default, <<>>))
    ELSE IF default.t = "list" THEN LoadEach(default.v, 1, MkMiny(<<>>, FALSE))
    ELSE Failed(default, "AssertionError")

\* The names of the configuration, in the order __init__ stores them.
ConfNames ==
    <<<<"v", "e", "r", "b", "o", "s", "e">>, <<"a", "l", "l", "o", "w", "_", "o", "v", "e", "r", "w", "r", "i", "t", "e", "s">>, <<"w", "a", "r", "n", "_", "o", "v", "e", "r", "w", "r", "i", "t", "e", "s">>, <<"p", "a", "r", "s", "e", "_", "e", "n", "v">>,
      <<"w", "a", "r", "n", "_", "e", "n", "v">>, <<"d", "e", "f", "a", "u", "l", "t", "s">>, <<"s", "t", "r", "i", "c", "t">>, <<"k", "e", "e", "p", "_", "s", "p", "e", "c", "i", "a", "l", "_", "k", "w", "a", "r", "g", "s">>>>

\* self.conf.<name>
Conf(conf, name) == DictGet(conf.v, PyStr(name))

\* self.conf after the assignments of __init__; params maps each name of
\* ConfNames to the argument given for it.
RECURSIVE ConfInit(_, _, _)
ConfInit(conf, params, i) ==
    IF i > Len(ConfNames) THEN conf
    ELSE ConfInit(__setattr__(conf, ConfNames[i], params[ConfNames[i]]).obj, params, i + 1)

\* {k[1:]: v for k, v in parsed.items()}
RECURSIVE WithoutAt(_, _, _)
WithoutAt(pairs, i, acc) ==
    IF i > Len(pairs) THEN PyDict(acc)
    ELSE WithoutAt(pairs, i + 1, DictSet(acc, PyStr(Tail(pairs[i][1].v)), pairs[i][2]))

\* The tokens of args whose key is "@" and a key of conf.
SpecialTokens(conf, args) ==
    SelectSeq(args, LAMBDA arg : StrSplit(arg, <<"=">>)[1]
                                     \in {<<"@">> \o conf.v[i][1].v : i \in 1..Len(conf.v)})

\* self.conf.update(...) of _parse_conf, after the special tokens were
\* mapped and typed as parsed.
ConfParsed(conf, mapped, parsed) ==
    IF IsRaise(parsed.ret)
    THEN [conf |-> conf, out |-> mapped.out \o parsed.out, err |-> parsed.ret]
    ELSE With(update(conf, WithoutAt(parsed.ret.v, 1, <<>>), <<>>, FALSE),
              LAMBDA upd : [conf |-> upd.obj, out |-> mapped.out \o parsed.out,
                            err |-> IF upd.err = "" THEN PyNone ELSE Raise(upd.err)])

\* _parse_conf after map_argv on the special tokens returned mapped.
ConfMapped(conf, e, mapped) ==
    IF IsRaise(mapped.ret) THEN [conf |-> conf, out |-> mapped.out, err |-> mapped.ret]
    ELSE ConfParsed(conf, mapped, parse_arg_types(e, mapped.ret, TRUE, TRUE))

\* A _parse_conf that leaves the configuration as it is.
_parse_conf_ignores_tokens(conf, args, e) == [conf |-> conf, out |-> <<>>, err |-> PyNone]

\* Parser._parse_conf in environment e: [conf, out, err].
_parse_conf(conf, args, e) ==
    With(SpecialTokens(conf, args),
         LAMBDA command_line_special_keys :
             IF command_line_special_keys = <<>>
             THEN [conf |-> conf, out |-> <<>>, err |-> PyNone]
             ELSE ConfMapped(conf, e, map_argv(command_line_special_keys, FALSE, FALSE)))

\* _parse_args after parse_arg_types returned typed; out is the output so far.
ArgsTyped(pc, out, typed) ==
    IF IsRaise(typed.ret)
    THEN [conf |-> pc.conf, args |-> PyNone, out |-> out \o typed.out, err |-> typed.ret]
    ELSE [conf |-> pc.conf, args |-> MinyInit(PyDict(<<>>), typed.ret.v),
          out |-> out \o typed.out, err |-> PyNone]

\* _parse_args after map_argv returned mapped.
ArgsMapped(pc, e, mapped) ==
    IF IsRaise(mapped.ret)
    THEN [conf |-> pc.conf, args |-> PyNone, out |-> pc.out \o mapped.out,
          err |-> mapped.ret]
    ELSE ArgsTyped(pc, pc.out \o mapped.out,
                   parse_arg_types(e, mapped.ret,
                                   Truthy(Conf(pc.conf, <<"p", "a", "r", "s", "e", "_", "e", "n", "v">>)),
                                   Truthy(Conf(pc.conf, <<"w", "a", "r", "n", "_", "e", "n", "v">>))))

\* _parse_args after _parse_conf returned pc.
ArgsConf(pc, args, e) ==
    IF pc.err # PyNone
    THEN [conf |-> pc.conf, args |-> PyNone, out |-> pc.out, err |-> pc.err]
    ELSE ArgsMapped(pc, e,
                    map_argv(args, Truthy(Conf(pc.conf, <<"a", "l", "l", "o", "w", "_", "o", "v", "e", "r", "w", "r", "i", "t", "e", "s">>)),
                             Truthy(Conf(pc.conf, <<"w", "a", "r", "n", "_", "o", "v", "e", "r", "w", "r", "i", "t", "e", "s">>))))

\* Parser._parse_args in environment e: [conf, args, out, err]; args is
\* PyNone as long as self.args is not assigned.
_parse_args(conf, args, e) ==
    With(check_args(args),
         LAMBDA chk :
             IF IsRaise(chk) THEN [conf |-> conf, args |-> PyNone, out |-> <<>>, err |-> chk]
             ELSE ArgsConf(_parse_conf(conf, args, e), args, e))

\* `x > 0`: the boolean, or the TypeError when x is no number.
Positive(x) ==
    IF x.t = "int" THEN PyBool(x.v > 0)
    ELSE IF x.t = "bool" THEN x
    ELSE IF x.t = "float" THEN PyBool((x.v[1] = "fin" /\ x.v[2] > 0) \/ x = FloatInf(1))
    ELSE Raise("TypeError")

PrintArgv(args) == <<"sys.argv:", args>>

DefaultsKey == PyStr(<<"@", "d", "e", "f", "a", "u", "l", "t", "s">>)
StrictKey == PyStr(<<"@", "s", "t", "r", "i", "c", "t">>)

\* The special arguments are set again on the merged arguments m when
\* keep_special_kwargs holds.
KeepSpecials(m, keep, args_defaults, args_strict) ==
    With(IF keep /\ args_defaults # PyNone
         THEN __setitem__(m, DefaultsKey, args_defaults).obj ELSE m,
         LAMBDA m1 : IF keep /\ args_strict # PyNone
                     THEN __setitem__(m1, StrictKey, args_strict).obj ELSE m1)

\* A merge that never is strict.
MergeUpdate_never_strict(conf1, selfargs, default, a2, args_defaults, args_strict) ==
    With(update(default, a2, <<>>, FALSE),
         LAMBDA merged :
             IF merged.err # ""
             THEN [conf |-> conf1, args |-> selfargs, err |-> Raise(merged.err)]
             ELSE [conf |-> conf1,
                   args |-> KeepSpecials(merged.obj,
                                         Truthy(Conf(conf1, <<"k", "e", "e", "p", "_", "s", "p", "e", "c", "i", "a", "l", "_", "k", "w", "a", "r", "g", "s">>)),
                                         args_defaults, args_strict),
                   err |-> PyNone])

\* self.args = default.update(args, strict=self.conf.strict)
MergeUpdate(conf1, selfargs, default, a2, args_defaults, args_strict) ==
    With(update(default, a2, <<>>, Truthy(Conf(conf1, <<"s", "t", "r", "i", "c", "t">>))),
         LAMBDA merged :
             IF merged.err # ""
             THEN [conf |-> conf1, args |-> selfargs, err |-> Raise(merged.err)]
             ELSE [conf |-> conf1,
                   args |-> KeepSpecials(merged.obj,
                                         Truthy(Conf(conf1, <<"k", "e", "e", "p", "_", "s", "p", "e", "c", "i", "a", "l", "_", "k", "w", "a", "r", "g", "s">>)),
                                         args_defaults, args_strict),
                   err |-> PyNone])

\* The special arguments are read from the resolved copy a of the arguments
\* and popped from it; @strict is written to the configuration.
MergeArgs(conf, selfargs, default, a, args_defaults, args_strict) ==
    MergeUpdate(IF args_strict # PyNone
                THEN __setattr__(conf, <<"s", "t", "r", "i", "c", "t">>, args_strict).obj ELSE conf,
                selfargs, default,
                With(IF args_defaults # PyNone THEN Pop(a, DefaultsKey) ELSE a,
                     LAMBDA a1 : IF args_strict # PyNone THEN Pop(a1, StrictKey) ELSE a1),
                args_defaults, args_strict)

\* rs is self.args.deepcopy().resolve()
MergeResolved(conf, selfargs, default, rs) ==
    IF rs.err # "" THEN [conf |-> conf, args |-> selfargs, err |-> Raise(rs.err)]
    ELSE MergeArgs(conf, selfargs, default, rs.obj,
                   DictGet(rs.obj.v, DefaultsKey), DictGet(rs.obj.v, StrictKey))

\* The branch of __init__ taken when defaults are provided: the defaults are
\* loaded and updated from a resolved deep copy of the arguments.
\* [conf, args, err].
MergeDefaults(conf, selfargs) ==
    With(load_defaults(With(DictGet(selfargs.v, DefaultsKey),
                            LAMBDA cmd : IF Truthy(cmd) THEN cmd
                                         ELSE Conf(conf, <<"d", "e", "f", "a", "u", "l", "t", "s">>))),
         LAMBDA ld :
             IF ld.err # "" THEN [conf |-> conf, args |-> selfargs, err |-> Raise(ld.err)]
             ELSE MergeResolved(conf, selfargs, ld.obj, resolve(deepcopy(selfargs))))

\* self.args.pop(f"@{k}", None) for the keys of conf from index i on.
RECURSIVE DropSpecials(_, _, _)
DropSpecials(conf, selfargs, i) ==
    IF i > Len(conf.v) THEN selfargs
    ELSE DropSpecials(conf, Pop(selfargs, PyStr(<<"@">> \o conf.v[i][1].v)), i + 1)

\* __init__ from the test of the defaults on; out is the output so far.
InitDefaults(pa, out) ==
    With(IF Conf(pa.conf, <<"d", "e", "f", "a", "u", "l", "t", "s">>) # PyNone \/ Truthy(DictGet(pa.args.v, DefaultsKey))
         THEN MergeDefaults(pa.conf, pa.args)
         ELSE [conf |-> pa.conf, args |-> pa.args, err |-> PyNone],
         LAMBDA md :
             IF md.err # PyNone
             THEN [conf |-> md.conf, args |-> md.args, out |-> out, err |-> md.err]
             ELSE IF ~Truthy(Conf(md.conf, <<"k", "e", "e", "p", "_", "s", "p", "e", "c", "i", "a", "l", "_", "k", "w", "a", "r", "g", "s">>))
             THEN [conf |-> md.conf, args |-> DropSpecials(md.conf, md.args, 1),
                   out |-> out, err |-> PyNone]
             ELSE [conf |-> md.conf, args |-> md.args, out |-> out, err |-> PyNone])

\* __init__ from `if self.conf.verbose > 0` on; pos is the comparison.
InitVerbose(pa, args, pos) ==
    IF IsRaise(pos) THEN [conf |-> pa.conf, args |-> pa.args, out |-> pa.out, err |-> pos]
    ELSE InitDefaults(pa, IF pos = PyBool(TRUE) THEN Append(pa.out, PrintArgv(args))
                          ELSE pa.out)

\* Parser.__init__ on the command line args in environment e; params maps
\* each name of ConfNames to the argument given for it.  [conf, args, out, err].
ParserInit(params, args, e) ==
    With(_parse_args(ConfInit(MkMiny(<<>>, FALSE), params, 1), args, e),
         LAMBDA pa : IF pa.err # PyNone THEN pa
                     ELSE InitVerbose(pa, args, Positive(Conf(pa.conf, <<"v", "e", "r", "b", "o", "s", "e">>))))

(***************************************************************************)
(* The inputs the operations are called with                               *)
(***************************************************************************)
MaxArgs == 3

\* Command-line tokens: a, -a, a=1, a=b=c, ' a = 1 ', a=, -a=1, .a, a.b=1, 'a =1', '- b', ...
Tokens ==
    {<<"a">>,
     <<"b">>,
     <<"-", "a">>,
     <<"-", "b">>,
     <<"a", "=", "1">>,
     <<"a", "=", "2">>,
     <<"b", "=", "1">>,
     <<"a", "=", "b", "=", "c">>,
     <<" ", "a", " ", "=", " ", "1", " ">>,
     <<"a", "=">>,
     <<"-", "a", "=", "1">>,
     <<".", "a">>,
     <<"a", ".", "b", "=", "1">>,
     <<"a", " ", "=", "1">>,
     <<"-", " ", "b">>}

RECURSIVE SeqsUpTo(_, _)
\* The sequences over S of length at most n.
SeqsUpTo(S, n) ==
    IF n = 0 THEN {<<>>}
    ELSE LET shorter == SeqsUpTo(S, n - 1)
         IN  shorter \cup {Append(q, x) : q \in shorter, x \in S}

ArgLists == SeqsUpTo(Tokens, MaxArgs)

\* Environments: A and AB set or not; N is never set.
Envs ==
    {<<>>,
     (<<"A">> :> PyStr(<<"1">>)),
     (<<"A", "B">> :> PyStr(<<"2">>)),
     (<<"A">> :> PyStr(<<"1">>)) @@ (<<"A", "B">> :> PyStr(<<"2">>)),
     (<<"A">> :> PyStr(<<"x", "y">>)) @@ (<<"A", "B">> :> PyStr(<<>>))}

\* Values handed to set_env: $A, $AB, $A/$AB, $AB/$A, $A$AB, $A$A, x$A.y, $N, $A/$N, $N/$A, ab, '', $, $$A, 3, True
EnvValues ==
    {PyStr(<<"$", "A">>),
     PyStr(<<"$", "A", "B">>),
     PyStr(<<"$", "A", "/", "$", "A", "B">>),
     PyStr(<<"$", "A", "B", "/", "$", "A">>),
     PyStr(<<"$", "A", "$", "A", "B">>),
     PyStr(<<"$", "A", "$", "A">>),
     PyStr(<<"x", "$", "A", ".", "y">>),
     PyStr(<<"$", "N">>),
     PyStr(<<"$", "A", "/", "$", "N">>),
     PyStr(<<"$", "N", "/", "$", "A">>),
     PyStr(<<"a", "b">>),
     PyStr(<<>>),
     PyStr(<<"$">>),
     PyStr(<<"$", "$", "A">>),
     PyInt(3),
     PyBool(TRUE)}

\* Values handed to _infer_arg_type: numbers, booleans, words, list and dict literals (well and ill formed), non-strings
InferInputs ==
    {PyStr(<<"3">>),
     PyStr(<<"0", "0", "7">>),
     PyStr(<<"3", ".", "1">>),
     PyStr(<<"1", "e", "-", "3">>),
     PyStr(<<".", "5">>),
     PyStr(<<" ", "3">>),
     PyStr(<<"1", "_", "0">>),
     PyStr(<<"-", "2">>),
     PyStr(<<"t", "r", "u", "e">>),
     PyStr(<<"T", "r", "u", "e">>),
     PyStr(<<"F", "A", "L", "S", "E">>),
     PyStr(<<"t", "r", "u">>),
     PyStr(<<"a", "b", "c">>),
     PyStr(<<"i", "n", "f">>),
     PyStr(<<"n", "a", "n">>),
     PyStr(<<>>),
     PyStr(<<"[", "]">>),
     PyStr(<<"[", "1", ",", " ", "2", "]">>),
     PyStr(<<"[", "1", ",", " ", "2", ",", " ", "'", "b", "'", "]">>),
     PyStr(<<"[", "1", ",", " ", "[", "2", ",", " ", "3", "]", "]">>),
     PyStr(<<"[", "'", "f", "a", "l", "s", "e", "'", "]">>),
     PyStr(<<"[", "[", "'", "f", "a", "l", "s", "e", "'", "]", "]">>),
     PyStr(<<"[", "'", "[", "1", "]", "'", "]">>),
     PyStr(<<"[", "'", "1", "'", ",", " ", "'", "T", "r", "u", "e", "'", ",", " ", "'", "1", ".", "5", "'", "]">>),
     PyStr(<<"[", "F", "a", "l", "s", "e", ",", " ", "N", "o", "n", "e", "]">>),
     PyStr(<<"[", "1", "]", ",", " ", "[", "2", "]">>),
     PyStr(<<"{", "}">>),
     PyStr(<<"{", "1", ":", " ", "2", "}">>),
     PyStr(<<"{", "1", ":", " ", "F", "a", "l", "s", "e", "}">>),
     PyStr(<<"{", "'", "a", "'", ":", " ", "'", "t", "r", "u", "e", "'", "}">>),
     PyStr(<<"{", "'", "1", "'", ":", " ", "'", "a", "'", "}">>),
     PyStr(<<"{", "1", ":", " ", "[", "1", ",", " ", "'", "3", "'", "]", "}">>),
     PyStr(<<"{", "'", "a", "'", ":", " ", "'", "{", "}", "'", "}">>),
     PyStr(<<"{", "'", "1", "'", ":", " ", "'", "a", "'", ",", " ", "1", ":", " ", "'", "b", "'", "}">>),
     PyStr(<<"[", "a", ",", " ", "b", "]">>),
     PyStr(<<"{", "1", ",", " ", "2", "}">>),
     PyStr(<<"[">>),
     PyStr(<<"{", "'", "[", "1", "]", "'", ":", " ", "2", "}">>),
     PyStr(<<"[", "1", " ", "2", "]">>),
     PyStr(<<"{", "}", ",", " ", "{", "}">>),
     PyStr(<<"(", "1", ",", " ", "2", ")">>),
     PyStr(<<"'", "a", "'">>),
     PyInt(3),
     PyBool(TRUE),
     PyNone,
     PyList(<<PyStr(<<"1">>)>>)}

\* The forced types of _infer_arg_type: none, or one of Parser.known_types.
TypeStrs == {PyNone} \cup {PyStr(x) : x \in known_types}

\* The arguments of Parser(): the defaults of __init__, and variations of them.
DefaultParams ==
    (<<"v", "e", "r", "b", "o", "s", "e">> :> PyInt(0)) @@ (<<"a", "l", "l", "o", "w", "_", "o", "v", "e", "r", "w", "r", "i", "t", "e", "s">> :> PyBool(FALSE))
    @@ (<<"w", "a", "r", "n", "_", "o", "v", "e", "r", "w", "r", "i", "t", "e", "s">> :> PyBool(TRUE)) @@ (<<"p", "a", "r", "s", "e", "_", "e", "n", "v">> :> PyBool(TRUE))
    @@ (<<"w", "a", "r", "n", "_", "e", "n", "v">> :> PyBool(TRUE)) @@ (<<"d", "e", "f", "a", "u", "l", "t", "s">> :> PyNone)
    @@ (<<"s", "t", "r", "i", "c", "t">> :> PyBool(TRUE)) @@ (<<"k", "e", "e", "p", "_", "s", "p", "e", "c", "i", "a", "l", "_", "k", "w", "a", "r", "g", "s">> :> PyBool(TRUE))

Override(params, name, val) == [params EXCEPT ![name] = val]

\* defaults={"a": {"b": 1}, "b": 2}
SomeDefaults ==
    PyDict(<< <<PyStr(<<"a">>), PyDict(<< <<PyStr(<<"b">>), PyInt(1)>> >>)>>,
              <<PyStr(<<"b">>), PyInt(2)>> >>)

\* Defaults in which the leaf a.b has a sibling leaf a.c.
SiblingDefaults ==
    PyDict(<< <<PyStr(<<"a">>), PyDict(<< <<PyStr(<<"b">>), PyInt(1)>>, <<PyStr(<<"c">>), PyInt(5)>> >>)>>,
              <<PyStr(<<"b">>), PyInt(2)>> >>)

ParserParams ==
    {DefaultParams,
     Override(DefaultParams, <<"d", "e", "f", "a", "u", "l", "t", "s">>, SiblingDefaults),
     Override(Override(DefaultParams, <<"d", "e", "f", "a", "u", "l", "t", "s">>, SiblingDefaults), <<"k", "e", "e", "p", "_", "s", "p", "e", "c", "i", "a", "l", "_", "k", "w", "a", "r", "g", "s">>, PyBool(FALSE)),
     Override(DefaultParams, <<"a", "l", "l", "o", "w", "_", "o", "v", "e", "r", "w", "r", "i", "t", "e", "s">>, PyBool(TRUE)),
     Override(Override(DefaultParams, <<"a", "l", "l", "o", "w", "_", "o", "v", "e", "r", "w", "r", "i", "t", "e", "s">>, PyBool(TRUE)),
          <<"w", "a", "r", "n", "_", "o", "v", "e", "r", "w", "r", "i", "t", "e", "s">>, PyBool(FALSE)),
     Override(Override(DefaultParams, <<"v", "e", "r", "b", "o", "s", "e">>, PyInt(1)), <<"w", "a", "r", "n", "_", "e", "n", "v">>, PyBool(FALSE)),
     Override(DefaultParams, <<"d", "e", "f", "a", "u", "l", "t", "s">>, SomeDefaults),
     Override(Override(Override(DefaultParams, <<"d", "e", "f", "a", "u", "l", "t", "s">>, SomeDefaults), <<"s", "t", "r", "i", "c", "t">>, PyBool(FALSE)),
          <<"k", "e", "e", "p", "_", "s", "p", "e", "c", "i", "a", "l", "_", "k", "w", "a", "r", "g", "s">>, PyBool(FALSE))}

\* Command lines with special (@) tokens, forced types and variables.
SpecialArgLists ==
    {<<<<"p", "=", "2">>, <<"x", "=", "4">>, <<"a">>, <<"-", "t">>, <<"r", ".", "s", "=", "0">>>>,
     <<<<"@", "a", "l", "l", "o", "w", "_", "o", "v", "e", "r", "w", "r", "i", "t", "e", "s", "=", "t", "r", "u", "e">>, <<"a", "=", "1">>, <<"a", "=", "2">>>>,
     <<<<"@", "s", "t", "r", "i", "c", "t", "=", "f", "a", "l", "s", "e">>, <<"z", "z", "=", "1">>>>,
     <<<<"@", "s", "t", "r", "i", "c", "t">>, <<"@", "s", "t", "r", "i", "c", "t", "=", "f", "a", "l", "s", "e">>>>,
     <<<<"@", "v", "e", "r", "b", "o", "s", "e", "=", "x">>>>,
     <<<<"@", "d", "e", "f", "a", "u", "l", "t", "s", "=", "{", "'", "a", "'", ":", " ", "1", "}">>, <<"a", "=", "3">>>>,
     <<<<"a", "=", "1">>, <<"a", "_", "_", "_", "i", "n", "t", "=", "2">>>>,
     <<<<"a", "=", "$", "A">>, <<"b", "=", "$", "N">>>>,
     <<<<"a", "=", "[", "a", ",", " ", "b", "]">>>>,
     <<<<"z", "z", "=", "1">>>>,
     <<<<"a", ".", "b", "=", "7">>>>,
     <<<<"@", "s", "t", "r", "i", "c", "t", "=", "f", "a", "l", "s", "e">>, <<"a", ".", "b", "=", "7">>, <<"z", "z", "=", "1">>>>,
     <<<<"a", ".", "c", "=", "6">>, <<"b", "=", "3">>>>,
     <<<<"@", "v", "e", "r", "b", "o", "s", "e", "=", "0">>, <<"a", ".", "b", "=", "7">>>>,
     <<<<"@", "k", "e", "e", "p", "_", "s", "p", "e", "c", "i", "a", "l", "_", "k", "w", "a", "r", "g", "s", "=", "f", "a", "l", "s", "e">>, <<"@", "s", "t", "r", "i", "c", "t", "=", "f", "a", "l", "s", "e">>, <<"z", "z", "=", "1">>>>,
     <<<<"@", "w", "a", "r", "n", "_", "e", "n", "v", "=", "f", "a", "l", "s", "e">>, <<"@", "p", "a", "r", "s", "e", "_", "e", "n", "v", "=", "f", "a", "l", "s", "e">>, <<"a", ".", "b", "=", "7">>>>,
     <<<<"@", "u", "n", "k", "n", "o", "w", "n", "=", "4">>, <<"a", "=", "1">>>>,
     <<<<"@", "a", "l", "l", "o", "w", "_", "o", "v", "e", "r", "w", "r", "i", "t", "e", "s", "=", "t", "r", "u", "e">>, <<"@", "w", "a", "r", "n", "_", "o", "v", "e", "r", "w", "r", "i", "t", "e", "s", "=", "f", "a", "l", "s", "e">>, <<"a", "=", "1">>, <<"a", "=", "2">>>>}

ParserEnvs == {(<<"A">> :> PyStr(<<"1">>))}

NoFlags ==
    [allow_overwrites |-> FALSE, warn_overwrites |-> FALSE, warn_env |-> FALSE,
     type_str |-> PyNone, strict |-> FALSE]

(***************************************************************************)
(* The state machine: each action is one call, made by a caller that is    *)
(* idle (op = "init") and returns to idle once it has seen the result      *)
(***************************************************************************)
Init ==
    /\ op = "init"
    /\ argv = <<>>
    /\ flags = NoFlags
    /\ value = PyNone
    /\ env = <<>>
    /\ ret = PyNone
    /\ stdout = <<>>
    /\ init_kwargs = DefaultParams
    /\ self_conf = PyNone
    /\ self_args = PyNone
    /\ d = PyNone
    /\ dpre = PyNone
    /\ other = PyNone
    /\ steps = 0
    /\ freeze_calls = <<>>
    /\ heap = <<>>
    /\ hpre = <<>>
    /\ d1 = PyNone
    /\ d2 = PyNone

\* Parser.check_args(args)
CheckArgs ==
    /\ op = "init"
    /\ \E args \in ArgLists \cup SpecialArgLists :
        /\ op' = "check_args"
        /\ argv' = args
        /\ flags' = NoFlags
        /\ value' = PyNone
        /\ env' = <<>>
        /\ ret' = check_args(args)
        /\ stdout' = <<>>
        /\ UNCHANGED <<init_kwargs, self_conf, self_args>>
        /\ UNCHANGED dictVars

\* Parser.map_argv(args, allow_overwrites, warn_overwrites)
MapArgv ==
    /\ op = "init"
    /\ \E args \in ArgLists, allow \in BOOLEAN, warn \in BOOLEAN :
      \E r \in {map_argv(args, allow, warn)} :
            /\ op' = "map_argv"
            /\ argv' = args
            /\ flags' = [NoFlags EXCEPT !.allow_overwrites = allow, !.warn_overwrites = warn]
            /\ value' = PyNone
            /\ env' = <<>>
            /\ ret' = r.ret
            /\ stdout' = r.out
            /\ UNCHANGED <<init_kwargs, self_conf, self_args>>
            /\ UNCHANGED dictVars

\* Parser.set_env(value, warn_env) in environment e
SetEnv ==
    /\ op = "init"
    /\ \E e \in Envs, val \in EnvValues, warn \in BOOLEAN :
      \E r \in {set_env(e, val, warn)} :
            /\ op' = "set_env"
            /\ argv' = <<>>
            /\ flags' = [NoFlags EXCEPT !.warn_env = warn]
            /\ value' = val
            /\ env' = e
            /\ ret' = r.ret
            /\ stdout' = r.out
            /\ UNCHANGED <<init_kwargs, self_conf, self_args>>
            /\ UNCHANGED dictVars

\* Parser._infer_arg_type(arg, type_str)
InferArgType ==
    /\ op = "init"
    /\ \E arg \in InferInputs, type_str \in TypeStrs :
        /\ op' = "_infer_arg_type"
        /\ argv' = <<>>
        /\ flags' = [NoFlags EXCEPT !.type_str = type_str]
        /\ value' = arg
        /\ env' = <<>>
        /\ ret' = _infer_arg_type(arg, type_str)
        /\ stdout' = <<>>
        /\ UNCHANGED <<init_kwargs, self_conf, self_args>>
        /\ UNCHANGED dictVars

\* Parser(**params) on the command line cmd in environment e
ParserNew ==
    /\ op = "init"
    /\ \E params \in ParserParams, cmd \in ArgLists \cup SpecialArgLists, e \in ParserEnvs :
      \E r \in {ParserInit(params, cmd, e)} :
            /\ op' = "Parser"
            /\ argv' = cmd
            /\ flags' = NoFlags
            /\ init_kwargs' = params
            /\ value' = PyNone
            /\ env' = e
            /\ ret' = r.err
            /\ stdout' = r.out
            /\ self_conf' = r.conf
            /\ self_args' = r.args
            /\ UNCHANGED dictVars

\* The caller is done with the result of a call, and with the Parser.
Return ==
    /\ op \in {"check_args", "map_argv", "set_env", "_infer_arg_type", "Parser"}
    /\ op' = "init"
    /\ argv' = <<>>
    /\ flags' = NoFlags
    /\ value' = PyNone
    /\ env' = <<>>
    /\ ret' = PyNone
    /\ stdout' = <<>>
    /\ init_kwargs' = DefaultParams
    /\ self_conf' = PyNone
    /\ self_args' = PyNone
    /\ UNCHANGED dictVars

Next ==
    \/ Return
    \/ CheckArgs
    \/ MapArgv
    \/ SetEnv
    \/ InferArgType
    \/ ParserNew

Spec == Init /\ [][Next]_vars

(***************************************************************************)
(* The state machine of one MinyDict: it is constructed from a mapping,    *)
(* then updated, resolved, frozen and unfrozen by its owner.               *)
(***************************************************************************)
MaxSteps == 4

\* The mappings a MinyDict is constructed from and updated with:
\*   {"a": 1, "r": {"t": 5}}
\*   {"a.b.c": 2, "a.b.d": 3}
\*   {"a.b": 1, "a": {"c": 2}}
\*   {"a.b": 1, "a": {"b": 2}}
\*   {"a": 1, "a.b": 2}
\*   {"a.b.d": 2, "a.b": {"c": 1}}
\*   {"a.b": {"c": 1}, "a.b.d": 2}
\*   {"x": {"y.z": 1}}
\*   {"a": 2, "zz": 1}
\*   {"zz": 1, "a": 2}
\*   {"r": {"t": 6, "q": 1}}
\*   {"r": {"q": 1}}
\*   {"r": {"t": 6}}
\*   {"r": 3}
\*   {"a": {"x": 1}}
\*   {}
DictInputs ==
    {PyDict(<<<<PyStr(<<"a">>), PyInt(1)>>, <<PyStr(<<"r">>), PyDict(<<<<PyStr(<<"t">>), PyInt(5)>>>>)>>>>),
     PyDict(<<<<PyStr(<<"a", ".", "b", ".", "c">>), PyInt(2)>>, <<PyStr(<<"a", ".", "b", ".", "d">>), PyInt(3)>>>>),
     PyDict(<<<<PyStr(<<"a", ".", "b">>), PyInt(1)>>, <<PyStr(<<"a">>), PyDict(<<<<PyStr(<<"c">>), PyInt(2)>>>>)>>>>),
     PyDict(<<<<PyStr(<<"a", ".", "b">>), PyInt(1)>>, <<PyStr(<<"a">>), PyDict(<<<<PyStr(<<"b">>), PyInt(2)>>>>)>>>>),
     PyDict(<<<<PyStr(<<"a">>), PyInt(1)>>, <<PyStr(<<"a", ".", "b">>), PyInt(2)>>>>),
     PyDict(<<<<PyStr(<<"a", ".", "b", ".", "d">>), PyInt(2)>>, <<PyStr(<<"a", ".", "b">>), PyDict(<<<<PyStr(<<"c">>), PyInt(1)>>>>)>>>>),
     PyDict(<<<<PyStr(<<"a", ".", "b">>), PyDict(<<<<PyStr(<<"c">>), PyInt(1)>>>>)>>, <<PyStr(<<"a", ".", "b", ".", "d">>), PyInt(2)>>>>),
     PyDict(<<<<PyStr(<<"x">>), PyDict(<<<<PyStr(<<"y", ".", "z">>), PyInt(1)>>>>)>>>>),
     PyDict(<<<<PyStr(<<"a">>), PyInt(2)>>, <<PyStr(<<"z", "z">>), PyInt(1)>>>>),
     PyDict(<<<<PyStr(<<"z", "z">>), PyInt(1)>>, <<PyStr(<<"a">>), PyInt(2)>>>>),
     PyDict(<<<<PyStr(<<"r">>), PyDict(<<<<PyStr(<<"t">>), PyInt(6)>>, <<PyStr(<<"q">>), PyInt(1)>>>>)>>>>),
     PyDict(<<<<PyStr(<<"r">>), PyDict(<<<<PyStr(<<"q">>), PyInt(1)>>>>)>>>>),
     PyDict(<<<<PyStr(<<"r">>), PyDict(<<<<PyStr(<<"t">>), PyInt(6)>>>>)>>>>),
     PyDict(<<<<PyStr(<<"r">>), PyInt(3)>>>>),
     PyDict(<<<<PyStr(<<"a">>), PyDict(<<<<PyStr(<<"x">>), PyInt(1)>>>>)>>>>),
     PyDict(<<>>)}

\* What a method returns that ends with `return self`.
SelfRef == [t |-> "self", v |-> "self"]

\* The result of a mutator as the caller sees it.
Returned(r) == IF r.err = "" THEN SelfRef ELSE Raise(r.err)

\* d = MinyDict(m)
Construct ==
    /\ d = PyNone
    /\ steps < MaxSteps
    /\ \E m \in DictInputs :
        /\ d' = MinyInit(m, <<>>)
        /\ dpre' = PyNone
        /\ other' = m
        /\ op' = "MinyDict"
        /\ flags' = NoFlags
        /\ ret' = PyNone
        /\ steps' = steps + 1
    /\ freeze_calls' = <<>>
    /\ UNCHANGED <<heapVars, argv, value, env, stdout, init_kwargs, self_conf, self_args>>

\* d.update(o, strict=strict)
Update ==
    /\ d # PyNone
    /\ steps < MaxSteps
    /\ \E o \in DictInputs, strict \in BOOLEAN :
      \E r \in {update(d, o, <<>>, strict)} :
        /\ d' = r.obj
        /\ dpre' = d
        /\ other' = o
        /\ op' = "update"
        /\ flags' = [NoFlags EXCEPT !.strict = strict]
        /\ ret' = Returned(r)
        /\ steps' = steps + 1
    /\ UNCHANGED <<heapVars, argv, value, env, stdout, init_kwargs, self_conf, self_args, freeze_calls>>

\* d.resolve()
Resolve ==
    /\ d # PyNone
    /\ steps < MaxSteps
    /\ \E r \in {resolve(d)} :
        /\ d' = r.obj
        /\ dpre' = d
        /\ other' = PyNone
        /\ op' = "resolve"
        /\ flags' = NoFlags
        /\ ret' = Returned(r)
        /\ steps' = steps + 1
    /\ UNCHANGED <<heapVars, argv, value, env, stdout, init_kwargs, self_conf, self_args, freeze_calls>>

\* d.freeze()
Freeze ==
    /\ d # PyNone
    /\ steps < MaxSteps
    /\ d' = freeze(d, TRUE)
    /\ dpre' = d
    /\ other' = PyNone
    /\ op' = "freeze"
    /\ flags' = NoFlags
    /\ ret' = PyNone
    /\ steps' = steps + 1
    /\ freeze_calls' = Append(freeze_calls, "freeze")
    /\ UNCHANGED <<heapVars, argv, value, env, stdout, init_kwargs, self_conf, self_args>>

\* d[k].freeze() for a key k that holds a MinyDict
FreezeNested ==
    /\ d # PyNone
    /\ steps < MaxSteps
    /\ \E i \in 1..Len(d.v) :
        /\ IsMiny(d.v[i][2])
        /\ d' = PutRaw(d, d.v[i][1], freeze(d.v[i][2], TRUE))
        /\ other' = d.v[i][1]
    /\ dpre' = d
    /\ op' = "freeze"
    /\ flags' = NoFlags
    /\ ret' = PyNone
    /\ steps' = steps + 1
    /\ freeze_calls' = Append(freeze_calls, "nested")
    /\ UNCHANGED <<heapVars, argv, value, env, stdout, init_kwargs, self_conf, self_args>>

\* d.unfreeze()
Unfreeze ==
    /\ d # PyNone
    /\ steps < MaxSteps
    /\ d' = freeze(d, FALSE)
    /\ dpre' = d
    /\ other' = PyNone
    /\ op' = "unfreeze"
    /\ flags' = NoFlags
    /\ ret' = PyNone
    /\ steps' = steps + 1
    /\ freeze_calls' = Append(freeze_calls, "unfreeze")
    /\ UNCHANGED <<heapVars, argv, value, env, stdout, init_kwargs, self_conf, self_args>>

\* The key paths from m to the MinyDicts nested in it through the values of
\* its keys, m itself (the empty path) included.
RECURSIVE MapPaths(_)
MapPaths(m) ==
    {<<>>} \cup UNION {{<<m.v[i][1]>> \o q : q \in MapPaths(m.v[i][2])}
                        : i \in {j \in 1..Len(m.v) : IsMiny(m.v[j][2])}}

\* m[path[1]][path[2]]...
RECURSIVE Nested(_, _)
Nested(m, path) ==
    IF path = <<>> THEN m ELSE Nested(DictGet(m.v, path[1]), Tail(path))

\* m after the object Nested(m, path) was mutated in place into new.
RECURSIVE ReplaceAt(_, _, _)
ReplaceAt(m, path, new) ==
    IF path = <<>> THEN new
    ELSE PutRaw(m, path[1], ReplaceAt(DictGet(m.v, path[1]), Tail(path), new))

\* The names and the values assigned: a key of the inputs, a new key and the
\* name of a method; a number and a plain dict that holds a plain dict.
AssignNames == {<<"a">>, <<"n">>, <<"u", "p", "d", "a", "t", "e">>}
AssignValues ==
    {PyInt(9), PyDict(<< <<PyStr(<<"q">>), PyDict(<< <<PyStr(<<"w">>), PyInt(1)>> >>)>> >>)}

\* The names assigned by attribute: these and two more names of the class.
AttrNames == AssignNames \cup {<<"k", "e", "y", "s">>, <<"_", "f", "r", "o", "z", "e", "n">>}

\* What the caller of an assignment or deletion sees.
Outcome(r) == IF r.err = "" THEN PyNone ELSE Raise(r.err)

\* The target, the name and the value of an assignment or deletion.
Target(p, name, val) == [t |-> "target", path |-> p, name |-> name, val |-> val]

\* d[p1]...[pn][name] = val
SetItem ==
    /\ d # PyNone
    /\ steps < MaxSteps
    /\ \E p \in MapPaths(d), name \in AssignNames, val \in AssignValues :
      \E r \in {__setitem__(Nested(d, p), PyStr(name), val)} :
        /\ d' = ReplaceAt(d, p, r.obj)
        /\ other' = Target(p, name, val)
        /\ ret' = Outcome(r)
    /\ dpre' = d
    /\ op' = "__setitem__"
    /\ flags' = NoFlags
    /\ steps' = steps + 1
    /\ UNCHANGED <<heapVars, argv, value, env, stdout, init_kwargs, self_conf, self_args, freeze_calls>>

\* d[p1]...[pn].name = val
SetAttr ==
    /\ d # PyNone
    /\ steps < MaxSteps
    /\ \E p \in MapPaths(d), name \in AttrNames, val \in AssignValues :
      \E r \in {__setattr__(Nested(d, p), name, val)} :
        /\ d' = ReplaceAt(d, p, r.obj)
        /\ other' = Target(p, name, val)
        /\ ret' = Outcome(r)
    /\ dpre' = d
    /\ op' = "__setattr__"
    /\ flags' = NoFlags
    /\ steps' = steps + 1
    /\ UNCHANGED <<heapVars, argv, value, env, stdout, init_kwargs, self_conf, self_args, freeze_calls>>

\* The keys deleted from a map: its own keys and an absent key.
DeletedKeys(m) == {m.v[i][1] : i \in 1..Len(m.v)} \cup {PyStr(<<"n">>)}

\* del d[p1]...[pn][k]
DelItem ==
    /\ d # PyNone
    /\ steps < MaxSteps
    /\ \E p \in MapPaths(d) :
      \E k \in DeletedKeys(Nested(d, p)) :
      \E r \in {__delitem__(Nested(d, p), k)} :
        /\ d' = ReplaceAt(d, p, r.obj)
        /\ other' = Target(p, k.v, PyNone)
        /\ ret' = Outcome(r)
    /\ dpre' = d
    /\ op' = "__delitem__"
    /\ flags' = NoFlags
    /\ steps' = steps + 1
    /\ UNCHANGED <<heapVars, argv, value, env, stdout, init_kwargs, self_conf, self_args, freeze_calls>>

\* del d[p1]...[pn].k
DelAttr ==
    /\ d # PyNone
    /\ steps < MaxSteps
    /\ \E p \in MapPaths(d) :
      \E k \in DeletedKeys(Nested(d, p)) :
      \E r \in {__delattr__(Nested(d, p), k.v)} :
        /\ d' = ReplaceAt(d, p, r.obj)
        /\ other' = Target(p, k.v, PyNone)
        /\ ret' = Outcome(r)
    /\ dpre' = d
    /\ op' = "__delattr__"
    /\ flags' = NoFlags
    /\ steps' = steps + 1
    /\ UNCHANGED <<heapVars, argv, value, env, stdout, init_kwargs, self_conf, self_args, freeze_calls>>

NextDict ==
    \/ Construct
    \/ Update
    \/ Resolve
    \/ Freeze
    \/ FreezeNested
    \/ Unfreeze
    \/ SetItem
    \/ SetAttr
    \/ DelItem
    \/ DelAttr

SpecDict == Init /\ [][NextDict]_vars

(***************************************************************************)
(* MinyDict instances in a heap: copy() and deepcopy().  A map value is a  *)
(* reference to an instance, so that two maps can hold the same instance.  *)
(***************************************************************************)
Ref(id) == [t |-> "ref", v |-> id]
IsRef(x) == x.t = "ref"

\* x refers to a plain dict of the caller, no MinyDict.
IsPlainRef(h, x) == IsRef(x) /\ "plain" \in DOMAIN h[x.v]

\* The pairs of a mapping value: of the instance referred to, or of a dict.
Items(h, m) == IF IsRef(m) THEN h[m.v].v ELSE m.v

\* dict.__setitem__ on instance id.
HPut(h, id, k, val) == [h EXCEPT ![id].v = DictSet(h[id].v, k, val)]

RECURSIVE HBuildLoop(_, _, _, _)
RECURSIVE HResolveNestsLoop(_, _, _)
RECURSIVE HStore(_, _, _, _)

\* A constructor that returns its argument when it is an instance.
HBuild_returns_source(h, arg) ==
    IF IsRef(arg) THEN [h |-> h, id |-> arg.v]
    ELSE HBuildLoop(Append(h, [v |-> <<>>, frozen |-> FALSE]), Len(h) + 1, Items(h, arg), 1)

\* MinyDict(arg) for a mapping arg: a new instance, filled by
\* self[key] = self._hook(val).  [h, id]
HBuild(h, arg) ==
    HBuildLoop(Append(h, [v |-> <<>>, frozen |-> FALSE]), Len(h) + 1, Items(h, arg), 1)

\* _hook(item): a MinyDict as it is, MinyDict(item) for a dict.  [h, val]
HHook(h, item) ==
    IF item.t = "dict" \/ IsPlainRef(h, item)
    THEN With(HBuild(h, item), LAMBDA b : [h |-> b.h, val |-> Ref(b.id)])
    ELSE [h |-> h, val |-> item]

HBuildLoop(h, id, pairs, i) ==
    IF i > Len(pairs) THEN [h |-> h, id |-> id]
    ELSE With(HHook(h, pairs[i][2]),
              LAMBDA hk : HBuildLoop(HStore(hk.h, id, pairs[i][1], hk.val).h,
                                     id, pairs, i + 1))

\* _resolve_nests on instance id: every value that is a mapping is built
\* anew, resolved and assigned.
HResolveNests(h, id) == HResolveNestsLoop(h, id, 1)

HResolveNestsLoop(h, id, i) ==
    IF i > Len(h[id].v) THEN h
    ELSE IF ~IsRef(h[id].v[i][2]) THEN HResolveNestsLoop(h, id, i + 1)
    ELSE With(HBuild(h, h[id].v[i][2]),
              LAMBDA b : HResolveNestsLoop(
                             HStore(HResolveNests(b.h, b.id), id, h[id].v[i][1], Ref(b.id)).h,
                             id, i + 1))

\* MinyDict.__setitem__ on instance id: a mapping value is replaced by
\* MinyDict(value), resolved.  [h, err]
HStore(h, id, k, val) ==
    IF h[id].frozen THEN [h |-> h, err |-> "AttributeError"]
    ELSE IF val.t \in {"ref", "dict"}
    THEN With(HBuild(h, val),
              LAMBDA b : [h |-> HPut(HResolveNests(b.h, b.id), id, k, Ref(b.id)),
                          err |-> ""])
    ELSE [h |-> HPut(h, id, k, val), err |-> ""]

\* MinyDict.update(other) on instance id, not strict, from pair i of other on.
RECURSIVE HUpdate(_, _, _, _)
HUpdate(h, id, pairs, i) ==
    IF i > Len(pairs) THEN [h |-> h, err |-> ""]
    ELSE IF \/ ~DictHas(h[id].v, pairs[i][1])
            \/ ~IsRef(DictGet(h[id].v, pairs[i][1]))
            \/ pairs[i][2].t \notin {"ref", "dict"}
    THEN With(HStore(h, id, pairs[i][1], pairs[i][2]),
              LAMBDA r : IF r.err # "" THEN r ELSE HUpdate(r.h, id, pairs, i + 1))
    ELSE With(HUpdate(h, DictGet(h[id].v, pairs[i][1]).v, Items(h, pairs[i][2]), 1),
              LAMBDA r : IF r.err # "" THEN r ELSE HUpdate(r.h, id, pairs, i + 1))

\* y[key] = value for the pairs from index i on.
RECURSIVE HStoreAll(_, _, _, _)
HStoreAll(h, id, pairs, i) ==
    IF i > Len(pairs) THEN h
    ELSE HStoreAll(HStore(h, id, pairs[i][1], pairs[i][2]).h, id, pairs, i + 1)

\* A copy that is the original itself.
copy_returns_self(h, id) == [h |-> h, id |-> id]

\* MinyDict.copy: copy.copy(self) makes a new instance without __init__
\* (__getnewargs__), hands it the state (__getstate__ is self) through
\* __setstate__, which is self.update(state), and then assigns every item of
\* the original once more.  [h, id]
copy(h, id) ==
    With(HUpdate(Append(h, [v |-> <<>>, frozen |-> FALSE]), Len(h) + 1, h[id].v, 1),
         LAMBDA st : [h |-> HStoreAll(st.h, Len(h) + 1, h[id].v, 1), id |-> Len(h) + 1])

\* MinyDict.__deepcopy__: other = MinyDict(); other[key] = deepcopy(value)
\* for every item.  [h, id]
RECURSIVE __deepcopy__(_, _)
RECURSIVE DeepCopyLoop(_, _, _, _)
DeepCopyLoop(h, other_id, pairs, i) ==
    IF i > Len(pairs) THEN [h |-> h, id |-> other_id]
    ELSE IF IsRef(pairs[i][2])
    THEN With(__deepcopy__(h, pairs[i][2].v),
              LAMBDA c : DeepCopyLoop(HStore(c.h, other_id, pairs[i][1], Ref(c.id)).h,
                                      other_id, pairs, i + 1))
    ELSE DeepCopyLoop(HStore(h, other_id, pairs[i][1], pairs[i][2]).h,
                      other_id, pairs, i + 1)

__deepcopy__(h, id) ==
    DeepCopyLoop(Append(h, [v |-> <<>>, frozen |-> FALSE]), Len(h) + 1, h[id].v, 1)

\* The key paths from instance id to the instances reached through values.
RECURSIVE HPaths(_, _)
HPaths(h, id) ==
    {<<>>} \cup UNION {{<<h[id].v[i][1]>> \o q : q \in HPaths(h, h[id].v[i][2].v)}
                        : i \in {j \in 1..Len(h[id].v) : IsRef(h[id].v[j][2])}}

\* The instance reached from instance id along path.
RECURSIVE HNested(_, _, _)
HNested(h, id, path) ==
    IF path = <<>> THEN id ELSE HNested(h, DictGet(h[id].v, path[1]).v, Tail(path))

\* The maps copied: the map of the copy test, a map with two levels of
\* nested maps, a flat map and the empty map.
CopyInputs ==
    {PyDict(<< <<PyStr(<<"a">>), PyInt(1)>>, <<PyStr(<<"b">>), PyInt(2)>>,
               <<PyStr(<<"r">>), PyDict(<< <<PyStr(<<"t">>), PyInt(5)>> >>)>> >>),
     PyDict(<< <<PyStr(<<"a">>), PyInt(1)>>,
               <<PyStr(<<"r">>), PyDict(<< <<PyStr(<<"t">>), PyInt(5)>>,
                                        <<PyStr(<<"s">>), PyDict(<< <<PyStr(<<"u">>), PyInt(1)>> >>)>> >>)>> >>),
     PyDict(<< <<PyStr(<<"a">>), PyInt(1)>> >>),
     PyDict(<<>>)}

\* d1 = MinyDict(m)
CopyConstruct ==
    /\ d1 = PyNone
    /\ steps < MaxSteps
    /\ \E m \in CopyInputs :
      \E b \in {HBuild(<<>>, m)} :
        /\ heap' = b.h
        /\ d1' = Ref(b.id)
        /\ other' = m
    /\ hpre' = <<>>
    /\ d2' = PyNone
    /\ op' = "MinyDict"
    /\ ret' = PyNone
    /\ steps' = steps + 1
    /\ UNCHANGED <<d, dpre, freeze_calls, argv, flags, value, env, stdout, init_kwargs, self_conf, self_args>>

\* d2 = d1.copy()
Copy ==
    /\ d1 # PyNone
    /\ d2 = PyNone
    /\ steps < MaxSteps
    /\ \E c \in {copy(heap, d1.v)} :
        /\ heap' = c.h
        /\ d2' = [ref |-> Ref(c.id), by |-> "copy"]
    /\ hpre' = heap
    /\ other' = PyNone
    /\ op' = "copy"
    /\ ret' = PyNone
    /\ steps' = steps + 1
    /\ UNCHANGED <<d1, d, dpre, freeze_calls, argv, flags, value, env, stdout, init_kwargs, self_conf, self_args>>

\* d2 = d1.deepcopy()
DeepCopy ==
    /\ d1 # PyNone
    /\ d2 = PyNone
    /\ steps < MaxSteps
    /\ \E c \in {__deepcopy__(heap, d1.v)} :
        /\ heap' = c.h
        /\ d2' = [ref |-> Ref(c.id), by |-> "deepcopy"]
    /\ hpre' = heap
    /\ other' = PyNone
    /\ op' = "deepcopy"
    /\ ret' = PyNone
    /\ steps' = steps + 1
    /\ UNCHANGED <<d1, d, dpre, freeze_calls, argv, flags, value, env, stdout, init_kwargs, self_conf, self_args>>

\* root[p1]...[pn][name] = val, for root the original or the copy
CopyAssign ==
    /\ d2 # PyNone
    /\ steps < MaxSteps
    /\ \E root \in {d1, d2.ref} :
      \E p \in HPaths(heap, root.v), name \in AssignNames, val \in AssignValues :
      \E r \in {HStore(heap, HNested(heap, root.v, p), PyStr(name), val)} :
        /\ heap' = r.h
        /\ other' = [root |-> root, path |-> p, name |-> name, val |-> val]
        /\ ret' = Outcome(r)
    /\ hpre' = heap
    /\ op' = "__setitem__"
    /\ steps' = steps + 1
    /\ UNCHANGED <<d1, d2, d, dpre, freeze_calls, argv, flags, value, env, stdout, init_kwargs, self_conf, self_args>>

NextCopy ==
    \/ CopyConstruct
    \/ Copy
    \/ DeepCopy
    \/ CopyAssign

SpecCopy == Init /\ [][NextCopy]_vars


(***************************************************************************)
(* Parser(defaults=...) on the heap: the caller passes an object it keeps, *)
(* a MinyDict or a plain dict, and the Parser copies, resolves and updates *)
(* instances.  A plain dict of the caller is an instance marked plain.     *)
(***************************************************************************)
\* isinstance(x, MinyDict)
IsMinyRef(h, x) == IsRef(x) /\ ~IsPlainRef(h, x)

\* A plain dict of the caller and the dicts nested in it, as instances.  [h, id]
RECURSIVE HPlain(_, _)
RECURSIVE HPlainLoop(_, _, _, _)
HPlainLoop(h, id, pairs, i) ==
    IF i > Len(pairs) THEN [h |-> h, id |-> id]
    ELSE IF pairs[i][2].t = "dict"
    THEN With(HPlain(h, pairs[i][2]),
              LAMBDA b : HPlainLoop(HPut(b.h, id, pairs[i][1], Ref(b.id)), id, pairs, i + 1))
    ELSE HPlainLoop(HPut(h, id, pairs[i][1], pairs[i][2]), id, pairs, i + 1)
HPlain(h, m) ==
    HPlainLoop(Append(h, [v |-> <<>>, frozen |-> FALSE, plain |-> TRUE]), Len(h) + 1, m.v, 1)

\* The instances reachable from instance id, id included.
RECURSIVE HReach(_, _)
HReach(h, id) ==
    {id} \cup UNION {HReach(h, h[id].v[i][2].v)
                       : i \in {j \in 1..Len(h[id].v) : IsRef(h[id].v[j][2])}}

\* The value of what x refers to, as the mapping it would be written as.
RECURSIVE HValue(_, _)
HValue(h, x) ==
    IF ~IsRef(x) THEN x
    ELSE PyDict([i \in 1..Len(h[x.v].v) |-> <<h[x.v].v[i][1], HValue(h, h[x.v].v[i][2])>>])

\* A value with every MinyDict in it written as a dict: what an instance is
\* built from when the source is no object of the heap.
RECURSIVE AsDict(_)
AsDict(x) ==
    IF IsDictLike(x) THEN PyDict([i \in 1..Len(x.v) |-> <<x.v[i][1], AsDict(x.v[i][2])>>])
    ELSE IF x.t \in {"list", "tuple"} THEN [t |-> x.t, v |-> [i \in 1..Len(x.v) |-> AsDict(x.v[i])]]
    ELSE x

\* dict.pop(k, None) / del self[k] on instance id.
HDel(h, id, k) == [h EXCEPT ![id].v = DictDel(h[id].v, k)]

\* MinyDict._resolve_dots on instance id.  [h, err]
RECURSIVE HResolveDots(_, _)
RECURSIVE HDotsLoop(_, _, _, _)
RECURSIVE HWalkSet(_, _, _, _)

\* The walk below sub-key sk of instance dn after its value cur was resolved
\* in place (rc): d[sk] = d[sk]._resolve_dots(), then d = d[sk].
HWalkResolved(dn, sk, cur, rc, rest, val) ==
    IF rc.err # "" THEN rc
    ELSE With(HStore(rc.h, dn, sk, cur),
              LAMBDA r2 : IF r2.err # "" THEN r2
                          ELSE HWalkSet(r2.h, DictGet(r2.h[dn].v, sk), rest, val))

\* The walk after the level of sub-key sk was created where it was missing.
HWalkInto(r1, dn, sk, rest, val) ==
    IF r1.err # "" THEN r1
    ELSE IF ~IsMinyRef(r1.h, DictGet(r1.h[dn].v, sk))
    THEN HWalkSet(r1.h, DictGet(r1.h[dn].v, sk), rest, val)
    ELSE HWalkResolved(dn, sk, DictGet(r1.h[dn].v, sk),
                       HResolveDots(r1.h, DictGet(r1.h[dn].v, sk).v), rest, val)

\* The walk along the sub-keys from the value dn (`d` in the code); a value
\* that is no instance supports none of it: TypeError.
HWalkSet(h, dn, segs, val) ==
    IF ~IsRef(dn) THEN [h |-> h, err |-> "TypeError"]
    ELSE IF Len(segs) = 1 THEN HStore(h, dn.v, PyStr(segs[1]), val)
    ELSE HWalkInto(IF ~DictHas(h[dn.v].v, PyStr(segs[1]))
                   THEN HStore(h, dn.v, PyStr(segs[1]), PyDict(<<>>))
                   ELSE [h |-> h, err |-> ""],
                   dn.v, PyStr(segs[1]), Tail(segs), val)

\* The key k of the loop, whose value was val: a dotted key is walked and
\* deleted.
HDotsKey(h, id, keys, i, k, val) ==
    IF ~IsStr(k) \/ ~StrIn(<<".">>, k.v) THEN HDotsLoop(h, id, keys, i + 1)
    ELSE With(HWalkSet(h, Ref(id), StrSplit(k.v, <<".">>), val),
              LAMBDA w : IF w.err # "" THEN w
                         ELSE HDotsLoop(HDel(w.h, id, k), id, keys, i + 1))

\* The MinyDict under k was resolved in place (rv), then self[k] = it.
HDotsValue(id, keys, i, k, val, rv) ==
    IF rv.err # "" THEN rv
    ELSE With(HStore(rv.h, id, k, val),
              LAMBDA st : IF st.err # "" THEN st ELSE HDotsKey(st.h, id, keys, i, k, val))

HDotsLoop(h, id, keys, i) ==
    IF i > Len(keys) THEN [h |-> h, err |-> ""]
    ELSE IF IsMinyRef(h, DictGet(h[id].v, keys[i]))
    THEN HDotsValue(id, keys, i, keys[i], DictGet(h[id].v, keys[i]),
                    HResolveDots(h, DictGet(h[id].v, keys[i]).v))
    ELSE HDotsKey(h, id, keys, i, keys[i], DictGet(h[id].v, keys[i]))

HResolveDots(h, id) ==
    HDotsLoop(h, id, [i \in 1..Len(h[id].v) |-> h[id].v[i][1]], 1)

\* MinyDict(src).resolve() for a mapping src: the new instance.  [h, id, err]
HLoad(h, src) ==
    With(HBuild(h, src),
         LAMBDA b : With(HResolveDots(HResolveNests(b.h, b.id), b.id),
                         LAMBDA r : [h |-> r.h, id |-> b.id, err |-> r.err]))

\* MinyDict.update(other, strict=strict) on instance id, from pair i on.  [h, err]
RECURSIVE HUpdateStrict(_, _, _, _, _)
HUpdateStrict(h, id, pairs, i, strict) ==
    IF i > Len(pairs) THEN [h |-> h, err |-> ""]
    ELSE IF strict /\ ~DictHas(h[id].v, pairs[i][1]) THEN [h |-> h, err |-> "KeyError"]
    ELSE With(IF \/ ~DictHas(h[id].v, pairs[i][1])
                 \/ ~IsRef(DictGet(h[id].v, pairs[i][1]))
                 \/ pairs[i][2].t \notin {"ref", "dict"}
              THEN HStore(h, id, pairs[i][1], pairs[i][2])
              ELSE HUpdateStrict(h, DictGet(h[id].v, pairs[i][1]).v,
                                 Items(h, pairs[i][2]), 1, strict),
              LAMBDA r : IF r.err # "" THEN r
                         ELSE HUpdateStrict(r.h, id, pairs, i + 1, strict))

\* self.args.pop(f"@{k}", None) for the keys of conf from index i on.
RECURSIVE HDropSpecials(_, _, _, _)
HDropSpecials(h, id, conf, i) ==
    IF i > Len(conf.v) THEN h
    ELSE HDropSpecials(HDel(h, id, PyStr(<<"@">> \o conf.v[i][1].v)), id, conf, i + 1)

\* The special arguments are set again on the merged arguments.
HKeepSpecials(h, id, args_defaults, args_strict) ==
    With(IF args_defaults # PyNone THEN HStore(h, id, DefaultsKey, AsDict(args_defaults)).h
         ELSE h,
         LAMBDA h1 : IF args_strict # PyNone THEN HStore(h1, id, StrictKey, args_strict).h
                     ELSE h1)

\* self.args = default.update(args, strict=self.conf.strict), then the
\* special arguments are brought back or cleaned up.  [h, id, err]
HMerge(ld, conf, a2, strict, args_defaults, args_strict) ==
    With(HUpdateStrict(ld.h, ld.id, AsDict(a2).v, 1, strict),
         LAMBDA m : IF m.err # "" THEN [h |-> m.h, id |-> 0, err |-> Raise(m.err)]
                    ELSE [h |-> IF Truthy(Conf(conf, <<"k", "e", "e", "p", "_", "s", "p", "e", "c", "i", "a", "l", "_", "k", "w", "a", "r", "g", "s">>))
                                THEN HKeepSpecials(m.h, ld.id, args_defaults, args_strict)
                                ELSE HDropSpecials(m.h, ld.id, conf, 1),
                          id |-> ld.id, err |-> PyNone])

\* The arguments were copied and resolved (rs); the special arguments are
\* read and removed, and @strict is written to the configuration.
HMergeResolved(ld, conf, rs) ==
    IF rs.err # "" THEN [h |-> ld.h, id |-> 0, err |-> Raise(rs.err)]
    ELSE HMerge(ld, conf,
                Pop(Pop(rs.obj, DefaultsKey), StrictKey),
                Truthy(IF DictGet(rs.obj.v, StrictKey) # PyNone
                       THEN DictGet(rs.obj.v, StrictKey) ELSE Conf(conf, <<"s", "t", "r", "i", "c", "t">>)),
                DictGet(rs.obj.v, DefaultsKey), DictGet(rs.obj.v, StrictKey))

\* The defaults were loaded as ld.
HMergeLoaded(ld, pa) ==
    IF ld.err # "" THEN [h |-> ld.h, id |-> 0, err |-> Raise(ld.err)]
    ELSE HMergeResolved(ld, pa.conf, resolve(deepcopy(pa.args)))

\* load_defaults of a specification that is no object of the caller (the
\* command line gave it): nothing of the heap is read.
HLoadValue(h, r) ==
    IF r.err # "" THEN [h |-> h, id |-> 0, err |-> r.err]
    ELSE With(HBuild(h, AsDict(r.obj)), LAMBDA b : [h |-> b.h, id |-> b.id, err |-> ""])

\* __init__ after _parse_args (pa): conf_id is the instance of self.conf,
\* conf0 the configuration as __init__ assigned it.  [h, id, err]
HInitDefaults(h, conf_id, conf0, pa) ==
    IF pa.err # PyNone THEN [h |-> h, id |-> 0, err |-> pa.err]
    ELSE IF IsRaise(Positive(Conf(pa.conf, <<"v", "e", "r", "b", "o", "s", "e">>)))
    THEN [h |-> h, id |-> 0, err |-> Positive(Conf(pa.conf, <<"v", "e", "r", "b", "o", "s", "e">>))]
    ELSE IF Truthy(DictGet(pa.args.v, DefaultsKey))
    THEN HMergeLoaded(HLoadValue(h, load_defaults(DictGet(pa.args.v, DefaultsKey))), pa)
    ELSE IF Conf(pa.conf, <<"d", "e", "f", "a", "u", "l", "t", "s">>) = Conf(conf0, <<"d", "e", "f", "a", "u", "l", "t", "s">>)
    THEN HMergeLoaded(HLoad(h, DictGet(h[conf_id].v, PyStr(<<"d", "e", "f", "a", "u", "l", "t", "s">>))), pa)
    ELSE HMergeLoaded(HLoadValue(h, load_defaults(Conf(pa.conf, <<"d", "e", "f", "a", "u", "l", "t", "s">>))), pa)

\* Parser(defaults=dflt, **params) on the command line cmd in environment e,
\* dflt an object of the caller: self.conf.defaults = defaults stores a copy
\* of it in the instance of self.conf.  [h, id, err]
HParserInit(h, dflt, params, cmd, e) ==
    With(ConfInit(MkMiny(<<>>, FALSE), Override(params, <<"d", "e", "f", "a", "u", "l", "t", "s">>, HValue(h, dflt)), 1),
         LAMBDA conf0 :
             HInitDefaults(HStore(Append(h, [v |-> <<>>, frozen |-> FALSE]), Len(h) + 1,
                                  PyStr(<<"d", "e", "f", "a", "u", "l", "t", "s">>), dflt).h,
                           Len(h) + 1, conf0, _parse_args(conf0, cmd, e)))

\* The objects the caller passes as defaults:
\*   {"a": {"b": 1, "c": 5}, "b": 2}
\*   {"a": "2", "c": 3, "d": {"e": {"f": 4, "g": 5}}}
\*   {"a.b": 1, "c": {"d.e": 2}}
\*   {}
DefaultsInputs ==
    {SiblingDefaults,
     PyDict(<< <<PyStr(<<"a">>), PyStr(<<"2">>)>>, <<PyStr(<<"c">>), PyInt(3)>>,
               <<PyStr(<<"d">>), PyDict(<< <<PyStr(<<"e">>), PyDict(<< <<PyStr(<<"f">>), PyInt(4)>>,
                                                               <<PyStr(<<"g">>), PyInt(5)>> >>)>> >>)>> >>),
     PyDict(<< <<PyStr(<<"a", ".", "b">>), PyInt(1)>>,
               <<PyStr(<<"c">>), PyDict(<< <<PyStr(<<"d", ".", "e">>), PyInt(2)>> >>)>> >>),
     PyDict(<<>>)}

\* The command lines: none, overrides of nested and top-level leaves, a map
\* replaced by a value, new keys with and without @strict=false, a leaf
\* below a value, and a value that cannot be inferred.
DefaultsArgLists ==
    {<<>>,
     <<<<"a", ".", "b", "=", "7">>>>,
     <<<<"b", "=", "3">>, <<"a", ".", "c", "=", "6">>>>,
     <<<<"a", "=", "1">>>>,
     <<<<"d", ".", "e", ".", "f", "=", "9">>, <<"c", "=", "[", "1", ",", " ", "2", "]">>>>,
     <<<<"z", "z", "=", "1">>>>,
     <<<<"@", "s", "t", "r", "i", "c", "t", "=", "f", "a", "l", "s", "e">>, <<"a", ".", "z", "=", "7">>, <<"z", "z", "=", "1">>>>,
     <<<<"@", "s", "t", "r", "i", "c", "t", "=", "f", "a", "l", "s", "e">>, <<"b", ".", "x", "=", "1">>>>,
     <<<<"@", "s", "t", "r", "i", "c", "t", "=", "f", "a", "l", "s", "e">>, <<"c", ".", "d", ".", "e", "=", "5">>, <<"a", "=", "{", "'", "b", "'", ":", " ", "{", "'", "k", "'", ":", " ", "1", "}", "}">>>>,
     <<<<"a", ".", "b", "=", "7">>, <<"b", "=", "[", "a", ",", " ", "b", "]">>>>}

\* The other arguments of the Parser: strict or not, special arguments kept
\* or not.
DefaultsParams ==
    {Override(Override(DefaultParams, <<"s", "t", "r", "i", "c", "t">>, PyBool(s)), <<"k", "e", "e", "p", "_", "s", "p", "e", "c", "i", "a", "l", "_", "k", "w", "a", "r", "g", "s">>, PyBool(k))
        : s \in BOOLEAN, k \in BOOLEAN}

\* The caller builds the object it will pass: a plain dict, or a MinyDict,
\* which it may have frozen.
DefaultsConstruct ==
    /\ op = "init"
    /\ \E m \in DefaultsInputs, kind \in {"dict", "MinyDict", "frozen MinyDict"} :
      \E b \in {IF kind = "dict" THEN HPlain(<<>>, m) ELSE HBuild(<<>>, m)} :
        /\ heap' = IF kind = "frozen MinyDict"
                   THEN [i \in 1..Len(b.h) |-> [b.h[i] EXCEPT !.frozen = TRUE]]
                   ELSE b.h
        /\ d1' = Ref(b.id)
        /\ other' = m
    /\ hpre' = <<>>
    /\ d2' = PyNone
    /\ op' = "defaults"
    /\ ret' = PyNone
    /\ UNCHANGED <<d, dpre, steps, freeze_calls, argv, flags, value, env, stdout, init_kwargs, self_conf, self_args>>

\* Parser(defaults=d1, **params) on the command line cmd
ParseDefaults ==
    /\ op = "defaults"
    /\ \E params \in DefaultsParams, cmd \in DefaultsArgLists, e \in ParserEnvs :
      \E r \in {HParserInit(heap, d1, params, cmd, e)} :
        /\ heap' = r.h
        /\ d2' = IF r.err = PyNone THEN [ref |-> Ref(r.id), by |-> "Parser"] ELSE PyNone
        /\ ret' = r.err
        /\ argv' = cmd
        /\ init_kwargs' = params
        /\ env' = e
    /\ hpre' = heap
    /\ op' = "Parser"
    /\ UNCHANGED <<d1, other, d, dpre, steps, freeze_calls, flags, value, stdout, self_conf, self_args>>

NextDefaults ==
    \/ DefaultsConstruct
    \/ ParseDefaults

SpecDefaults == Init /\ [][NextDefaults]_vars


(***************************************************************************)
(* MinyDicts that hold sequences: _hook converts the mappings inside the   *)
(* lists and tuples given to the constructor, to_dict converts back, and   *)
(* the owner reaches the maps inside a sequence by index.                  *)
(***************************************************************************)
\* MinyDict.to_dict
RECURSIVE to_dict(_)
to_dict(self) ==
    PyDict([i \in 1..Len(self.v) |->
        <<self.v[i][1],
          IF IsMiny(self.v[i][2]) THEN to_dict(self.v[i][2])
          ELSE IF self.v[i][2].t \in {"list", "tuple"}
          THEN [t |-> self.v[i][2].t,
                v |-> [j \in 1..Len(self.v[i][2].v) |->
                          IF IsMiny(self.v[i][2].v[j]) THEN to_dict(self.v[i][2].v[j])
                          ELSE self.v[i][2].v[j]]]
          ELSE self.v[i][2]>>])

MaxSeqSteps == 4

\* The mappings a MinyDict that holds sequences is constructed from:
\*   {"a": 1, "b": [{"c": 2}, {"d": {"e": 3}}]}
\*   {"b": [{"c": 2}]}
\*   {"b": [[{"c": 2}]]}
\*   {"b": ({"c": 2},)}
\*   {"a": 1, "b": 2, 4: "x", "r": {"t": 5}}
\*   {"a": 1, "r": {"t": 5}}
\*   {"l": [1, 2]}
SeqInputs ==
    {PyDict(<< <<PyStr(<<"a">>), PyInt(1)>>,
               <<PyStr(<<"b">>), PyList(<<PyDict(<< <<PyStr(<<"c">>), PyInt(2)>> >>),
                                       PyDict(<< <<PyStr(<<"d">>), PyDict(<< <<PyStr(<<"e">>), PyInt(3)>> >>)>> >>)>>)>> >>),
     PyDict(<< <<PyStr(<<"b">>), PyList(<<PyDict(<< <<PyStr(<<"c">>), PyInt(2)>> >>)>>)>> >>),
     PyDict(<< <<PyStr(<<"b">>), PyList(<<PyList(<<PyDict(<< <<PyStr(<<"c">>), PyInt(2)>> >>)>>)>>)>> >>),
     PyDict(<< <<PyStr(<<"b">>), PyTuple(<<PyDict(<< <<PyStr(<<"c">>), PyInt(2)>> >>)>>)>> >>),
     PyDict(<< <<PyStr(<<"a">>), PyInt(1)>>, <<PyStr(<<"b">>), PyInt(2)>>,
               <<PyInt(4), PyStr(<<"x">>)>>,
               <<PyStr(<<"r">>), PyDict(<< <<PyStr(<<"t">>), PyInt(5)>> >>)>> >>),
     PyDict(<< <<PyStr(<<"a">>), PyInt(1)>>, <<PyStr(<<"r">>), PyDict(<< <<PyStr(<<"t">>), PyInt(5)>> >>)>> >>),
     PyDict(<< <<PyStr(<<"l">>), PyList(<<PyInt(1), PyInt(2)>>)>> >>)}

\* A step of a path into a sequence: the index of an element.
Index(i) == [t |-> "index", v |-> i]

\* The paths from x to the MinyDicts reachable from it through the values of
\* keys and the elements of lists and tuples, x itself (the empty path)
\* included when it is a MinyDict.
RECURSIVE ElemPaths(_)
ElemPaths(x) ==
    IF IsMiny(x)
    THEN {<<>>} \cup UNION {{<<x.v[i][1]>> \o q : q \in ElemPaths(x.v[i][2])}
                             : i \in 1..Len(x.v)}
    ELSE IF x.t \in {"list", "tuple"}
    THEN UNION {{<<Index(i)>> \o q : q \in ElemPaths(x.v[i])} : i \in 1..Len(x.v)}
    ELSE {}

\* x[path[1]][path[2]]..., a step being a key or an index.
RECURSIVE ElemAt(_, _)
ElemAt(x, path) ==
    IF path = <<>> THEN x
    ELSE IF path[1].t = "index" THEN ElemAt(x.v[path[1].v], Tail(path))
    ELSE ElemAt(DictGet(x.v, path[1]), Tail(path))

\* x after the object ElemAt(x, path) was mutated in place into new.
RECURSIVE ElemPut(_, _, _)
ElemPut(x, path, new) ==
    IF path = <<>> THEN new
    ELSE IF path[1].t = "index"
    THEN [x EXCEPT !.v[path[1].v] = ElemPut(x.v[path[1].v], Tail(path), new)]
    ELSE [x EXCEPT !.v = DictSet(x.v, path[1],
                                  ElemPut(DictGet(x.v, path[1]), Tail(path), new))]

\* The names assigned inside a map reached through a sequence.
SeqNames == {<<"c">>, <<"n">>}

\* d = MinyDict(m)
SeqConstruct ==
    /\ d = PyNone
    /\ steps < MaxSeqSteps
    /\ \E m \in SeqInputs :
        /\ d' = MinyInit(m, <<>>)
        /\ other' = m
    /\ dpre' = PyNone
    /\ op' = "MinyDict"
    /\ flags' = NoFlags
    /\ ret' = PyNone
    /\ steps' = steps + 1
    /\ freeze_calls' = <<>>
    /\ UNCHANGED <<heapVars, argv, value, env, stdout, init_kwargs, self_conf, self_args>>

\* d.to_dict()
ToDict ==
    /\ d # PyNone
    /\ steps < MaxSeqSteps
    /\ ret' = to_dict(d)
    /\ d' = d
    /\ dpre' = d
    /\ other' = PyNone
    /\ op' = "to_dict"
    /\ flags' = NoFlags
    /\ steps' = steps + 1
    /\ UNCHANGED <<heapVars, argv, value, env, stdout, init_kwargs, self_conf, self_args, freeze_calls>>

\* d.freeze()
SeqFreeze ==
    /\ d # PyNone
    /\ steps < MaxSeqSteps
    /\ d' = freeze(d, TRUE)
    /\ dpre' = d
    /\ other' = PyNone
    /\ op' = "freeze"
    /\ flags' = NoFlags
    /\ ret' = PyNone
    /\ steps' = steps + 1
    /\ freeze_calls' = Append(freeze_calls, "freeze")
    /\ UNCHANGED <<heapVars, argv, value, env, stdout, init_kwargs, self_conf, self_args>>

\* d.unfreeze()
SeqUnfreeze ==
    /\ d # PyNone
    /\ steps < MaxSeqSteps
    /\ d' = freeze(d, FALSE)
    /\ dpre' = d
    /\ other' = PyNone
    /\ op' = "unfreeze"
    /\ flags' = NoFlags
    /\ ret' = PyNone
    /\ steps' = steps + 1
    /\ freeze_calls' = Append(freeze_calls, "unfreeze")
    /\ UNCHANGED <<heapVars, argv, value, env, stdout, init_kwargs, self_conf, self_args>>

\* d[p1]...[pn][name] = 9, a step of the path being a key or an index
SeqSetItem ==
    /\ d # PyNone
    /\ steps < MaxSeqSteps
    /\ \E p \in ElemPaths(d), name \in SeqNames :
      \E r \in {__setitem__(ElemAt(d, p), PyStr(name), PyInt(9))} :
        /\ d' = ElemPut(d, p, r.obj)
        /\ other' = Target(p, name, PyInt(9))
        /\ ret' = Outcome(r)
    /\ dpre' = d
    /\ op' = "__setitem__"
    /\ flags' = NoFlags
    /\ steps' = steps + 1
    /\ UNCHANGED <<heapVars, argv, value, env, stdout, init_kwargs, self_conf, self_args, freeze_calls>>

\* d[p1]...[pn].name = 9
SeqSetAttr ==
    /\ d # PyNone
    /\ steps < MaxSeqSteps
    /\ \E p \in ElemPaths(d), name \in SeqNames :
      \E r \in {__setattr__(ElemAt(d, p), name, PyInt(9))} :
        /\ d' = ElemPut(d, p, r.obj)
        /\ other' = Target(p, name, PyInt(9))
        /\ ret' = Outcome(r)
    /\ dpre' = d
    /\ op' = "__setattr__"
    /\ flags' = NoFlags
    /\ steps' = steps + 1
    /\ UNCHANGED <<heapVars, argv, value, env, stdout, init_kwargs, self_conf, self_args, freeze_calls>>

(***************************************************************************)
(* MinyDict.pretty_print.  A box-drawing character is one element of a     *)
(* string, written by its name.                                            *)
(***************************************************************************)
BoxV == "BOX-VERTICAL"
BoxH == "BOX-HORIZONTAL"
BoxDownRight == "BOX-ARC-DOWN-RIGHT"
BoxDownLeft == "BOX-ARC-DOWN-LEFT"
BoxUpRight == "BOX-ARC-UP-RIGHT"
BoxUpLeft == "BOX-ARC-UP-LEFT"

\* c * n
Times(c, n) == [i \in 1..n |-> c]

\* f"{s:{w}}" for a string s
Padded(s, w) == IF Len(s) >= w THEN s ELSE s \o Times(" ", w - Len(s))

\* str(n) for an integer n
RECURSIVE IntStr(_)
IntStr(n) ==
    IF n < 0 THEN <<"-">> \o IntStr(0 - n)
    ELSE IF n < 10 THEN <<DigitSeq[n + 1]>>
    ELSE IntStr(n \div 10) \o <<DigitSeq[(n % 10) + 1]>>

\* repr(x) for the values used here (a string without quote or backslash)
RECURSIVE Repr(_)
RECURSIVE ReprItems(_, _)
RECURSIVE ReprPairs(_, _)
ReprItems(xs, i) ==
    IF i > Len(xs) THEN <<>>
    ELSE Repr(xs[i]) \o (IF i < Len(xs) THEN <<",", " ">> ELSE <<>>) \o ReprItems(xs, i + 1)
ReprPairs(ps, i) ==
    IF i > Len(ps) THEN <<>>
    ELSE Repr(ps[i][1]) \o <<":", " ">> \o Repr(ps[i][2])
         \o (IF i < Len(ps) THEN <<",", " ">> ELSE <<>>) \o ReprPairs(ps, i + 1)
Repr(x) ==
    CASE x.t = "str" -> <<"'">> \o x.v \o <<"'">>
      [] x.t = "int" -> IntStr(x.v)
      [] x.t = "bool" -> IF x.v THEN <<"T", "r", "u", "e">> ELSE <<"F", "a", "l", "s", "e">>
      [] x.t = "none" -> <<"N", "o", "n", "e">>
      [] x.t = "list" -> <<"[">> \o ReprItems(x.v, 1) \o <<"]">>
      [] x.t = "tuple" -> <<"(">> \o ReprItems(x.v, 1)
                          \o (IF Len(x.v) = 1 THEN <<",">> ELSE <<>>) \o <<")">>
      [] x.t \in {"dict", "miny"} -> <<"{">> \o ReprPairs(x.v, 1) \o <<"}">>

\* str(x)
Str(x) == IF x.t = "str" THEN x.v ELSE Repr(x)

\* The characters of the keys and values in the order of their code points.
CodePoints ==
    <<" ">> \o <<"'">> \o <<"(", ")", ",", "-", ".">> \o DigitSeq \o <<":", "@">> \o UpperSeq \o <<"[", "]", "_">> \o LowerSeq \o <<"{", "}">>

CodePoint(c) == CHOOSE i \in 1..Len(CodePoints) : CodePoints[i] = c

\* a < b for two strings
RECURSIVE StrLess(_, _)
StrLess(a, b) ==
    IF b = <<>> THEN FALSE
    ELSE IF a = <<>> THEN TRUE
    ELSE IF a[1] # b[1] THEN CodePoint(a[1]) < CodePoint(b[1])
    ELSE StrLess(Tail(a), Tail(b))

\* sorted(xs) for a list of strings
RECURSIVE SortInsert(_, _)
SortInsert(sorted, x) ==
    IF sorted = <<>> THEN <<x>>
    ELSE IF StrLess(x, sorted[Len(sorted)]) 
    THEN Append(SortInsert(SubSeq(sorted, 1, Len(sorted) - 1), x), sorted[Len(sorted)])
    ELSE Append(sorted, x)

RECURSIVE Sorted(_)
Sorted(xs) ==
    IF xs = <<>> THEN <<>>
    ELSE SortInsert(Sorted(SubSeq(xs, 1, Len(xs) - 1)), xs[Len(xs)])

\* max(ns + [0])
RECURSIVE MaxLen(_)
MaxLen(xs) ==
    IF xs = <<>> THEN 0
    ELSE With(MaxLen(Tail(xs)), LAMBDA m : IF Len(xs[1]) > m THEN Len(xs[1]) ELSE m)

\* utils.split_line for a length that is not 0: the pieces of the line, of
\* the given length, that are not made of blanks only; none when the length
\* is negative.
RECURSIVE SplitPieces(_, _, _)
SplitPieces(line, length, i) ==
    IF i > Len(line) \div length THEN <<>>
    ELSE With(SubSeq(line, length * i + 1,
                     IF length * (i + 1) < Len(line) THEN length * (i + 1) ELSE Len(line)),
              LAMBDA piece : (IF LStrip(piece) # <<>> THEN <<piece>> ELSE <<>>)
                             \o SplitPieces(line, length, i + 1))

split_line(line, length) ==
    IF length < 0 THEN <<>> ELSE SplitPieces(line, length, 0)

\* The indentation of the lines printed at nesting level.
Indent(indents, level) ==
    IF level = 0 THEN <<>>
    ELSE [i \in 1..((level - 1) * indents) |-> IF (i - 1) % indents = 0 THEN BoxV ELSE " "]
         \o <<BoxV>>

\* The text _pretty_print_rec captures: for each key string k, in order, the
\* line of self[k], and for a MinyDict what the nested call prints.
RECURSIVE _pretty_print_rec(_, _, _, _)
RECURSIVE PrintKeys(_, _, _, _, _, _, _)
PrintKeys(self, keys, i, ml, indents, sort_keys, level) ==
    IF i > Len(keys) THEN <<>>
    ELSE With(__getitem__(self, PyStr(keys[i])),
              LAMBDA v :
                  (IF IsMiny(v)
                   THEN Indent(indents, level) \o keys[i] \o <<"\n">>
                        \o _pretty_print_rec(v, indents, sort_keys, level + 1) \o <<"\n">>
                   ELSE Indent(indents, level) \o Padded(keys[i], ml) \o <<":", " ">> \o Str(v)
                        \o <<"\n">>)
                  \o PrintKeys(self, keys, i + 1, ml, indents, sort_keys, level))

\* list(map(str, self.keys())), sorted if sort_keys
KeyStrs(self, sort_keys) ==
    With([i \in 1..Len(self.v) |-> Str(self.v[i][1])],
         LAMBDA ks : IF sort_keys THEN Sorted(ks) ELSE ks)

_pretty_print_rec(self, indents, sort_keys, level) ==
    With(KeyStrs(self, sort_keys),
         LAMBDA ks : PrintKeys(self, ks, 1, MaxLen(ks) + 1, indents, sort_keys, level))

\* The index of the first ":" of line, counted from 0; -1 if it has none.
FindColon(line) == StrFind(line, <<":">>, 1) - 1

\* The lines of the box for one captured line.
RECURSIVE BoxPieces(_, _, _, _)
BoxPieces(pieces, s, line, max_len) ==
    IF s > Len(pieces) THEN <<>>
    ELSE <<<<BoxV, " ">>
           \o Padded((IF s > 1 THEN Times(" ", FindColon(line) + 2) ELSE <<>>) \o pieces[s],
                     max_len)
           \o <<" ", BoxV>>>>
         \o BoxPieces(pieces, s + 1, line, max_len)

BoxLine(line, max_len, line_max) ==
    IF line_max = 0 THEN [out |-> <<>>, err |-> "ZeroDivisionError"]
    ELSE [out |-> BoxPieces(split_line(line, line_max), 1, line, max_len)
                  \o (IF line_max < 1 THEN <<<<BoxV, " ">> \o line \o <<" ", BoxV>>>> ELSE <<>>),
          err |-> ""]

RECURSIVE BoxLines(_, _, _)
BoxLines(lines, i, max_len) ==
    IF i > Len(lines) THEN [out |-> <<>>, err |-> ""]
    ELSE With(BoxLine(lines[i], max_len,
                      IF StrIn(<<":">>, lines[i]) /\ Len(lines[i]) > max_len
                      THEN max_len - (FindColon(lines[i]) + 2)
                      ELSE max_len),
              LAMBDA b : IF b.err # "" THEN b
                         ELSE With(BoxLines(lines, i + 1, max_len),
                                   LAMBDA rest : IF rest.err # "" THEN rest
                                                  ELSE [out |-> b.out \o rest.out, err |-> ""]))

\* The highest call level of _pretty_print_rec: the lines printed for the
\* captured text in a terminal of the given number of columns.
Box(lines, max_len) ==
    With(BoxLines(lines, 1, max_len),
         LAMBDA b : IF b.err # "" THEN b
                    ELSE [out |-> <<<<BoxDownRight>> \o Times(BoxH, max_len + 2) \o <<BoxDownLeft>>>>
                                  \o b.out
                                  \o <<<<BoxUpRight>> \o Times(BoxH, max_len + 2) \o <<BoxUpLeft>>>>,
                          err |-> ""])

CapturedLines(text) ==
    With(StrSplit(text, <<"\n">>),
         LAMBDA lines : IF lines[Len(lines)] = <<>> THEN SubSeq(lines, 1, Len(lines) - 1)
                        ELSE lines)

\* MinyDict.pretty_print(indents, sort_keys) in a terminal of columns columns:
\* the lines printed, and the error raised if any.
pretty_print(self, indents, sort_keys, columns) ==
    With(CapturedLines(_pretty_print_rec(self, indents, sort_keys, 0)),
         LAMBDA lines : Box(lines, IF MaxLen(lines) + 4 > columns - 4 THEN columns - 4
                                   ELSE MaxLen(lines) + 4))

\* The widths of the terminal: the fallback of shutil.get_terminal_size and
\* a narrow one.
Columns == {12, 80}

\* d.pretty_print(indents, sort_keys)
PrettyPrint ==
    /\ d # PyNone
    /\ steps < MaxSeqSteps
    /\ \E indents \in {2, 4}, sort_keys \in BOOLEAN, columns \in Columns :
      \E r \in {pretty_print(d, indents, sort_keys, columns)} :
        /\ stdout' = r.out
        /\ ret' = IF r.err = "" THEN SelfRef ELSE Raise(r.err)
        /\ other' = [t |-> "print", indents |-> indents, sort_keys |-> sort_keys,
                     columns |-> columns]
    /\ d' = d
    /\ dpre' = d
    /\ op' = "pretty_print"
    /\ flags' = NoFlags
    /\ steps' = steps + 1
    /\ UNCHANGED <<heapVars, argv, value, env, init_kwargs, self_conf, self_args, freeze_calls>>

NextSeq ==
    \/ SeqConstruct
    \/ ToDict
    \/ SeqFreeze
    \/ SeqUnfreeze
    \/ SeqSetItem
    \/ SeqSetAttr
    \/ PrettyPrint

SpecSeq == Init /\ [][NextSeq]_vars


(***************************************************************************)
(* What the specification says of a token, stated on the characters        *)
(***************************************************************************)
\* The index of the first "=" of a token, 0 if it has none.
FirstEq(tok) ==
    IF \E i \in 1..Len(tok) : tok[i] = "="
    THEN CHOOSE i \in 1..Len(tok) : tok[i] = "=" /\ \A j \in 1..(i - 1) : tok[j] # "="
    ELSE 0

\* s without its leading and trailing whitespace.
Trimmed(s) ==
    IF \A i \in 1..Len(s) : s[i] \in Whitespace THEN <<>>
    ELSE LET first == CHOOSE i \in 1..Len(s) :
                          s[i] \notin Whitespace /\ \A j \in 1..(i - 1) : s[j] \in Whitespace
             last  == CHOOSE i \in 1..Len(s) :
                          s[i] \notin Whitespace /\ \A j \in (i + 1)..Len(s) : s[j] \in Whitespace
         IN  SubSeq(s, first, last)

TokenKey(tok) ==
    IF FirstEq(tok) > 0 THEN Trimmed(SubSeq(tok, 1, FirstEq(tok) - 1))
    ELSE IF tok # <<>> /\ tok[1] = "-" THEN Trimmed(SubSeq(tok, 2, Len(tok)))
    ELSE Trimmed(tok)

TokenValue(tok) ==
    IF FirstEq(tok) > 0 THEN PyStr(Trimmed(SubSeq(tok, FirstEq(tok) + 1, Len(tok))))
    ELSE IF tok # <<>> /\ tok[1] = "-" THEN PyBool(FALSE)
    ELSE PyBool(TRUE)

DistinctKeys(args) ==
    \A i, j \in 1..Len(args) : i # j => TokenKey(args[i]) # TokenKey(args[j])

\* Token j repeats the key of an earlier token.
IsRepetition(args, j) == \E i \in 1..(j - 1) : TokenKey(args[i]) = TokenKey(args[j])

\* The last token that has the key of token i.
LastWithKey(args, i) ==
    CHOOSE j \in i..Len(args) :
        /\ TokenKey(args[j]) = TokenKey(args[i])
        /\ \A k \in (j + 1)..Len(args) : TokenKey(args[k]) # TokenKey(args[i])

\* The warnings of the repetitions among the first n tokens, in token order.
RECURSIVE RepetitionWarnings(_, _)
RepetitionWarnings(args, n) ==
    IF n = 0 THEN <<>>
    ELSE RepetitionWarnings(args, n - 1)
         \o (IF IsRepetition(args, n) THEN <<WarnRepeated(TokenKey(args[n]))>> ELSE <<>>)

(***************************************************************************)
(* Claims                                                                  *)
(***************************************************************************)
\* C1: for a token list with pairwise distinct keys, map_argv returns a
\* mapping with exactly one entry per token: the text before the first "="
\* (trimmed) maps to all the text after it (trimmed, further "=" kept); a
\* token without "=" that starts with "-" maps its rest (trimmed) to False;
\* any other token (trimmed) maps to True.
C1_MapArgvOneEntryPerToken ==
    (op = "map_argv" /\ DistinctKeys(argv)) =>
        /\ ret.t = "dict"
        /\ Len(ret.v) = Len(argv)
        /\ \A i \in 1..Len(argv) :
               /\ DictHas(ret.v, PyStr(TokenKey(argv[i])))
               /\ DictGet(ret.v, PyStr(TokenKey(argv[i]))) = TokenValue(argv[i])

\* A call with three tokens of distinct keys: a=b=c, '- b' and a.b=1.
C1_Witness ==
    /\ op = "map_argv"
    /\ argv = << <<"a", "=", "b", "=", "c">>, <<"-", " ", "b">>, <<"a", ".", "b", "=", "1">> >>
    /\ DistinctKeys(argv)
    /\ ret.t = "dict"
    /\ DictGet(ret.v, PyStr(<<"a">>)) = PyStr(<<"b", "=", "c">>)
    /\ DictGet(ret.v, PyStr(<<"b">>)) = PyBool(FALSE)

\* C4: when two tokens yield the same key, map_argv with overwrites
\* disallowed fails with the duplicate-argument error naming the key and
\* returns no mapping; with overwrites allowed it succeeds, every key holds
\* the value of its last occurrence, and one warning naming the key is
\* printed per repetition exactly when warnings are enabled.
C4_OverwritePolicy ==
    (op = "map_argv" /\ ~DistinctKeys(argv)) =>
        IF ~flags.allow_overwrites
        THEN /\ IsRaise(ret)
             /\ ret.v = "MinydraWrongArgumentException"
             /\ \E j \in 1..Len(argv) :
                    /\ IsRepetition(argv, j)
                    /\ \A i \in 1..(j - 1) : ~IsRepetition(argv, i)
                    /\ ret.msg = TokenKey(argv[j])
        ELSE /\ ret.t = "dict"
             /\ \A i \in 1..Len(argv) :
                    DictGet(ret.v, PyStr(TokenKey(argv[i])))
                        = TokenValue(argv[LastWithKey(argv, i)])
             /\ stdout = IF flags.warn_overwrites
                         THEN RepetitionWarnings(argv, Len(argv))
                         ELSE <<>>

\* a=1 a -a with overwrites allowed and warned: two warnings, False is kept.
C4_Witness ==
    /\ op = "map_argv"
    /\ argv = << <<"a", "=", "1">>, <<"a">>, <<"-", "a">> >>
    /\ flags.allow_overwrites /\ flags.warn_overwrites
    /\ ret = PyDict(<< <<PyStr(<<"a">>), PyBool(FALSE)>> >>)
    /\ stdout = <<WarnRepeated(<<"a">>), WarnRepeated(<<"a">>)>>

\* The tokens joined by single spaces, as a command line.
RECURSIVE JoinedStream(_)
JoinedStream(args) ==
    IF args = <<>> THEN <<>>
    ELSE IF Len(args) = 1 THEN args[1]
    ELSE args[1] \o <<" ">> \o JoinedStream(Tail(args))

\* The cases in which the specification has check_args fail.
Malformed(args) ==
    LET js == JoinedStream(args)
    IN  \/ \E i \in 1..(Len(js) - 1) : js[i] = " " /\ js[i + 1] = "="
        \/ \E i \in 1..(Len(js) - 1) : js[i] = "=" /\ js[i + 1] = " "
        \/ js # <<>> /\ js[Len(js)] = "="
        \/ \E i \in 1..Len(args) : FirstEq(args[i]) > 0 /\ args[i][1] = "-"
        \/ \E i \in 1..Len(args) : args[i] # <<>> /\ args[i][1] = "."

\* The identifiers referenced in a string: after each "$", the maximal run of
\* word characters, when it is not empty.
RefAt(s, i) ==
    LET stop == CHOOSE j \in i..Len(s) :
                    /\ \A k \in (i + 1)..j : s[k] \in WordChars
                    /\ (j = Len(s) \/ s[j + 1] \notin WordChars)
    IN  SubSeq(s, i + 1, stop)

Refs(s) == {RefAt(s, i) : i \in {j \in 1..Len(s) : s[j] = "$"}} \ {<<>>}

\* s with every reference to a variable set in e replaced by the value of
\* exactly that variable, in one pass from the left; all other text is kept.
RECURSIVE Substituted(_, _, _)
Substituted(e, s, i) ==
    IF i > Len(s) THEN <<>>
    ELSE IF s[i] = "$" /\ RefAt(s, i) # <<>> /\ RefAt(s, i) \in DOMAIN e
         THEN e[RefAt(s, i)].v \o Substituted(e, s, i + 1 + Len(RefAt(s, i)))
         ELSE <<s[i]>> \o Substituted(e, s, i + 1)

\* C5: for a string whose referenced variables are all set, set_env returns
\* the string with each $IDENTIFIER replaced by the value of exactly that
\* identifier (the maximal run of word characters), also when one identifier
\* is a prefix of another, all other text unchanged; a non-string is returned
\* unchanged.
C5_SetEnvSubstitutesEachReference ==
    (op = "set_env") =>
        /\ ~IsStr(value) => ret = value
        /\ (IsStr(value) /\ Refs(value.v) \subseteq DOMAIN env) =>
               ret = PyStr(Substituted(env, value.v, 1))

\* C6: when a referenced variable is not set, set_env returns normally with
\* that $IDENTIFIER left in place, with warnings enabled and with warnings
\* disabled; a warning naming the variable is printed exactly when warnings
\* are enabled.
C6_MissingVariableIsNoError ==
    (op = "set_env" /\ IsStr(value) /\ ~(Refs(value.v) \subseteq DOMAIN env)) =>
        /\ ~IsRaise(ret)
        /\ IsStr(ret)
        /\ \A name \in Refs(value.v) \ DOMAIN env :
               /\ StrIn(<<"$">> \o name, ret.v)
               /\ flags.warn_env <=> \E i \in 1..Len(stdout) : stdout[i] = WarnEnv(name)
        /\ ~flags.warn_env => stdout = <<>>

\* The strings that inference leaves alone: not digits, no float, not
\* true or false, not delimited by brackets or braces.
PlainString(s) ==
    /\ ~(s # <<>> /\ \A i \in 1..Len(s) : s[i] \in Digits)
    /\ ~FloatParse(s).ok
    /\ Lower(s) \notin {<<"t", "r", "u", "e">>, <<"f", "a", "l", "s", "e">>}
    /\ ~(s # <<>> /\ s[1] = "[" /\ s[Len(s)] = "]")
    /\ ~(s # <<>> /\ s[1] = "{" /\ s[Len(s)] = "}")

\* Nothing is left to infer in x: it is no string, or a plain one.
Inferred(x) == IsStr(x) => PlainString(x.v)

\* C2: without a forced type a non-string is returned unchanged; a string of
\* digits becomes an integer; else a string that parses as a float becomes a
\* float; else true or false in any case becomes the boolean; else a [...]
\* string becomes a sequence and a {...} string a mapping, every element, key
\* and value inferred in turn; any other string is returned unchanged.
C2_InferenceByShape ==
    (op = "_infer_arg_type" /\ flags.type_str = PyNone) =>
        IF ~IsStr(value) THEN ret = value
        ELSE IF value.v # <<>> /\ \A i \in 1..Len(value.v) : value.v[i] \in Digits
             THEN ret.t = "int"
        ELSE IF FloatParse(value.v).ok THEN ret.t = "float"
        ELSE IF Lower(value.v) = <<"t", "r", "u", "e">> THEN ret = PyBool(TRUE)
        ELSE IF Lower(value.v) = <<"f", "a", "l", "s", "e">> THEN ret = PyBool(FALSE)
        ELSE IF value.v # <<>> /\ value.v[1] = "[" /\ value.v[Len(value.v)] = "]"
             THEN /\ ret.t = "list"
                  /\ \A i \in 1..Len(ret.v) : Inferred(ret.v[i])
        ELSE IF value.v # <<>> /\ value.v[1] = "{" /\ value.v[Len(value.v)] = "}"
             THEN /\ ret.t = "dict"
                  /\ \A i \in 1..Len(ret.v) : Inferred(ret.v[i][1]) /\ Inferred(ret.v[i][2])
        ELSE ret = value

\* C3: check_args fails with the malformed-argument error exactly when the
\* space-joined tokens contain " =" or "= ", or end with "=", or a token with
\* "=" starts with "-", or a token starts with "."; the Parser runs it before
\* any mapping, so a failing token list leaves the Parser without arguments
\* and nothing is printed.
C3_CheckArgsBeforeMapping ==
    /\ (op = "check_args") =>
           ret = IF Malformed(argv) THEN Raise("MinydraWrongArgumentException") ELSE PyNone
    /\ (op = "Parser" /\ Malformed(argv)) =>
           /\ ret = Raise("MinydraWrongArgumentException")
           /\ self_args = PyNone
           /\ stdout = <<>>
    /\ (op = "Parser" /\ ~Malformed(argv)) => ret # Raise("MinydraWrongArgumentException")

\* A Parser with overwrites allowed and warned on a=1 a=2 .a: the last token
\* starts with a dot, so no argument is mapped and no overwrite is warned of.
C3_Witness ==
    /\ op = "Parser"
    /\ argv = << <<"a", "=", "1">>, <<"a", "=", "2">>, <<".", "a">> >>
    /\ Truthy(init_kwargs[<<"a", "l", "l", "o", "w", "_", "o", "v", "e", "r", "w", "r", "i", "t", "e", "s">>])
    /\ Truthy(init_kwargs[<<"w", "a", "r", "n", "_", "o", "v", "e", "r", "w", "r", "i", "t", "e", "s">>])
    /\ Malformed(argv)
    /\ ret = Raise("MinydraWrongArgumentException")
    /\ self_args = PyNone
    /\ stdout = <<>>

(***************************************************************************)
(* What the specification says of resolve and update, stated on the maps   *)
(***************************************************************************)
\* The path a key stands for: a string is split on the dots.
Segments(k) ==
    IF IsStr(k) THEN [i \in 1..Len(StrSplit(k.v, <<".">>)) |-> PyStr(StrSplit(k.v, <<".">>)[i])]
    ELSE <<k>>

Missing == [t |-> "missing", v |-> "missing"]

\* The value reached from m along the keys of path.
RECURSIVE ValueAt(_, _)
ValueAt(m, path) ==
    IF path = <<>> THEN m
    ELSE IF ~IsMiny(m) \/ ~DictHas(m.v, path[1]) THEN Missing
    ELSE ValueAt(DictGet(m.v, path[1]), Tail(path))

\* Every key of orig has its value in res at the path of the key; a map
\* value has, in turn, each of its keys placed in the map found there.
RECURSIVE Placed(_, _)
Placed(orig, res) ==
    \A i \in 1..Len(orig.v) :
        With(ValueAt(res, Segments(orig.v[i][1])),
             LAMBDA x : IF IsMiny(orig.v[i][2]) THEN IsMiny(x) /\ Placed(orig.v[i][2], x)
                        ELSE x = orig.v[i][2])

\* No key of m, or of a map nested in m, contains a dot.
RECURSIVE NoDottedKeys(_)
NoDottedKeys(m) ==
    \A i \in 1..Len(m.v) :
        /\ ~(IsStr(m.v[i][1]) /\ StrIn(<<".">>, m.v[i][1].v))
        /\ IsMiny(m.v[i][2]) => NoDottedKeys(m.v[i][2])

\* The pairs <<path, value>> of m and of the maps nested in it, below prefix.
RECURSIVE Entries(_, _)
Entries(m, prefix) ==
    UNION {{<<prefix \o Segments(m.v[i][1]), m.v[i][2]>>}
               \cup (IF IsMiny(m.v[i][2])
                     THEN Entries(m.v[i][2], prefix \o Segments(m.v[i][1]))
                     ELSE {})
           : i \in 1..Len(m.v)}

IsProperPrefix(p, q) == Len(p) < Len(q) /\ SubSeq(q, 1, Len(p)) = p

\* Some path of m passes through a value of m that is no mapping.
PassesThroughScalar(m) ==
    \E a, b \in Entries(m, <<>>) : IsProperPrefix(a[1], b[1]) /\ ~IsDictLike(a[2])

\* Neither m nor any map nested in it is frozen.
RECURSIVE DeepUnfrozen(_)
DeepUnfrozen(m) ==
    /\ ~m.frozen
    /\ \A i \in 1..Len(m.v) : IsMiny(m.v[i][2]) => DeepUnfrozen(m.v[i][2])

\* A value without the order of its keys and the kind of its mappings.
RECURSIVE Canon(_)
Canon(x) ==
    IF IsDictLike(x)
    THEN [t |-> "map", v |-> {<<x.v[i][1], Canon(x.v[i][2])>> : i \in 1..Len(x.v)}]
    ELSE IF x.t \in {"list", "tuple"}
    THEN [t |-> x.t, v |-> [i \in 1..Len(x.v) |-> Canon(x.v[i])]]
    ELSE x

CanonKeys(m) == {p[1] : p \in m.v}
CanonGet(m, k) == (CHOOSE p \in m.v : p[1] = k)[2]

\* The merge the specification describes, of the map o into the map target.
RECURSIVE ClaimMerge(_, _)
ClaimMerge(target, o) ==
    [t |-> "map",
     v |-> {p \in target.v : p[1] \notin CanonKeys(o)}
           \cup {<<p[1], IF /\ p[1] \in CanonKeys(target)
                            /\ CanonGet(target, p[1]).t = "map"
                            /\ p[2].t = "map"
                         THEN ClaimMerge(CanonGet(target, p[1]), p[2])
                         ELSE p[2]>> : p \in o.v}]

\* o has a key absent from target, at the top or inside a mapping that is
\* merged into an existing nested map.
RECURSIVE HasAbsentKey(_, _)
HasAbsentKey(target, o) ==
    \E i \in 1..Len(o.v) :
        \/ ~DictHas(target.v, o.v[i][1])
        \/ /\ IsDictLike(DictGet(target.v, o.v[i][1]))
           /\ IsDictLike(o.v[i][2])
           /\ HasAbsentKey(DictGet(target.v, o.v[i][1]), o.v[i][2])

\* C7: for a map in which no dotted key's path passes through a value that
\* is no mapping, resolve() leaves the value of every original key at the
\* nested path of the key, dotted keys that share a prefix under the same
\* intermediate maps, no compound key, and returns the map itself.
C7_ResolvePlacesEveryDottedKey ==
    (op = "resolve" /\ DeepUnfrozen(dpre) /\ ~PassesThroughScalar(dpre)) =>
        /\ ret = SelfRef
        /\ NoDottedKeys(d)
        /\ Placed(dpre, d)

\* C8: a non-strict update on an unfrozen map merges, for every key of the
\* other map, two mappings recursively (keys of the existing nested map that
\* are absent from the incoming one keep their values), replaces or adds any
\* other value, keeps every key of the target that is absent from the other
\* map, and returns the target itself.  Unfrozen is read as: neither the map
\* nor a map nested in it is frozen.
C8_NonStrictUpdateMerges ==
    (op = "update" /\ ~flags.strict /\ DeepUnfrozen(dpre)) =>
        /\ ret = SelfRef
        /\ Canon(d) = ClaimMerge(Canon(dpre), Canon(other))

\* {"a": 1, "r": {"t": 5}} updated with {"r": {"q": 1}}: t keeps its value.
C8_Witness ==
    /\ op = "update"
    /\ ~flags.strict
    /\ DeepUnfrozen(dpre)
    /\ dpre = MinyInit(PyDict(<<<<PyStr(<<"a">>), PyInt(1)>>, <<PyStr(<<"r">>), PyDict(<<<<PyStr(<<"t">>), PyInt(5)>>>>)>>>>), <<>>)
    /\ other = PyDict(<<<<PyStr(<<"r">>), PyDict(<<<<PyStr(<<"q">>), PyInt(1)>>>>)>>>>)
    /\ ret = SelfRef
    /\ d = MinyInit(PyDict(<<<<PyStr(<<"a">>), PyInt(1)>>, <<PyStr(<<"r">>), PyDict(<<<<PyStr(<<"t">>), PyInt(5)>>, <<PyStr(<<"q">>), PyInt(1)>>>>)>>>>), <<>>)

\* What C9 says of a strict update: the strict-merge error when the other
\* map has an absent key, else the result of the non-strict update.
StrictOutcome ==
    IF HasAbsentKey(dpre, other) THEN ret = Raise("KeyError")
    ELSE /\ ret = SelfRef
         /\ d = update(dpre, other, <<>>, FALSE).obj

\* C9 as stated: update(other, strict=True) fails with the strict-merge error
\* whenever other has a key absent from the corresponding target map, at the
\* top or inside a mapping merged into an existing nested map; else it
\* succeeds with the result of the non-strict update.
C9_StrictUpdateOnAnyTarget ==
    (op = "update" /\ flags.strict) => StrictOutcome

\* C9, amended: the same on a target in which no map is frozen.
C9_StrictUpdateOnUnfrozenTarget ==
    (op = "update" /\ flags.strict /\ DeepUnfrozen(dpre)) => StrictOutcome

\* {"a": 1, "r": {"t": 5}} strictly updated with {"r": {"t": 6, "q": 1}}: q is
\* absent from the nested map r.
C9_Witness ==
    /\ op = "update"
    /\ flags.strict
    /\ DeepUnfrozen(dpre)
    /\ dpre = MinyInit(PyDict(<<<<PyStr(<<"a">>), PyInt(1)>>, <<PyStr(<<"r">>), PyDict(<<<<PyStr(<<"t">>), PyInt(5)>>>>)>>>>), <<>>)
    /\ other = PyDict(<<<<PyStr(<<"r">>), PyDict(<<<<PyStr(<<"t">>), PyInt(6)>>, <<PyStr(<<"q">>), PyInt(1)>>>>)>>>>)
    /\ ret = Raise("KeyError")

\* C10: when update(other, strict=True) fails because of a key absent from
\* the target, the target is unmodified: its content at every depth is its
\* content before the call.
C10_FailedStrictUpdateLeavesTarget ==
    (op = "update" /\ flags.strict /\ ret = Raise("KeyError")) => d = dpre

\* The token is key=value, or a flag, with a key that is not special and
\* forces no type, and a value that is no list, no dict and no variable.
OrdinaryToken(tok) ==
    /\ TokenKey(tok) # <<>>
    /\ TokenKey(tok)[1] # "@"
    /\ ~StrIn(<<"_", "_", "_">>, TokenKey(tok))
    /\ IsStr(TokenValue(tok)) =>
           /\ TokenValue(tok).v # <<>>
           /\ TokenValue(tok).v[1] \notin {"[", "{", "(", "'", "\""}
           /\ ~StrIn(<<"$">>, TokenValue(tok).v)

StrictOff == <<"@", "s", "t", "r", "i", "c", "t", "=", "f", "a", "l", "s", "e">>

\* The path of keys a token addresses, and the value it gives.
ArgPath(tok) == Segments(PyStr(TokenKey(tok)))
ArgVal(tok) == _infer_arg_type(TokenValue(tok), PyNone)

\* Somewhere along path a key is absent from the map of m it is looked up in.
RECURSIVE PathAbsent(_, _)
PathAbsent(m, path) ==
    IF ~DictHas(m.v, path[1]) THEN TRUE
    ELSE IF Len(path) = 1 THEN FALSE
    ELSE IsMiny(DictGet(m.v, path[1])) /\ PathAbsent(DictGet(m.v, path[1]), Tail(path))

\* p and q are equal or one is a prefix of the other.
Related(p, q) == p = q \/ IsProperPrefix(p, q) \/ IsProperPrefix(q, p)

\* A Parser built with defaults and no other non-default parameter than
\* strict, on a well-formed command line of ordinary tokens with distinct
\* and unrelated keys and, possibly, @strict=false.
DefaultsCase ==
    /\ op = "Parser"
    /\ init_kwargs[<<"d", "e", "f", "a", "u", "l", "t", "s">>] # PyNone
    /\ \A n \in DOMAIN init_kwargs :
           n \notin {<<"d", "e", "f", "a", "u", "l", "t", "s">>, <<"s", "t", "r", "i", "c", "t">>} => init_kwargs[n] = DefaultParams[n]
    /\ ~Malformed(argv)
    /\ DistinctKeys(argv)
    /\ \A i \in 1..Len(argv) : argv[i] = StrictOff \/ OrdinaryToken(argv[i])
    /\ \A i, j \in 1..Len(argv) :
           (i # j /\ argv[i] # StrictOff /\ argv[j] # StrictOff)
               => ~Related(ArgPath(argv[i]), ArgPath(argv[j]))

\* The defaults of the Parser as a map (the defaults given have no dotted key).
DefaultsMap == MinyInit(init_kwargs[<<"d", "e", "f", "a", "u", "l", "t", "s">>], <<>>)

\* The strictness of the merge: the parameter, unless @strict=false is given.
StrictOn ==
    Truthy(init_kwargs[<<"s", "t", "r", "i", "c", "t">>]) /\ \A i \in 1..Len(argv) : argv[i] # StrictOff

\* C11: with defaults, the arguments are merged on top of the defaults with
\* the configured strictness: a strict merge with an ordinary key absent from
\* the defaults aborts the parse with the strict-merge error; otherwise the
\* parse succeeds, the result holds the value of every argument at its
\* (dotted) path, every leaf of the defaults no argument addresses keeps its
\* default value, and no other ordinary key is in the result.
C11_ArgumentsMergedOnDefaults ==
    DefaultsCase =>
        IF StrictOn /\ \E i \in 1..Len(argv) :
                          argv[i] # StrictOff /\ PathAbsent(DefaultsMap, ArgPath(argv[i]))
        THEN ret = Raise("KeyError")
        ELSE /\ ret = PyNone
             /\ \A i \in 1..Len(argv) :
                    argv[i] # StrictOff
                        => ValueAt(self_args, ArgPath(argv[i])) = ArgVal(argv[i])
             /\ \A e \in Entries(DefaultsMap, <<>>) :
                    (/\ ~IsDictLike(e[2])
                     /\ \A i \in 1..Len(argv) :
                            argv[i] # StrictOff => ~Related(ArgPath(argv[i]), e[1]))
                        => ValueAt(self_args, e[1]) = e[2]
             /\ \A k \in 1..Len(self_args.v) :
                    \/ DictHas(DefaultsMap.v, self_args.v[k][1])
                    \/ self_args.v[k][1] = PyStr(<<"@", "s", "t", "r", "i", "c", "t">>)
                    \/ \E i \in 1..Len(argv) :
                           argv[i] # StrictOff /\ ArgPath(argv[i])[1] = self_args.v[k][1]

\* @strict=false a.b=7 zz=1 on the defaults {"a": {"b": 1, "c": 5}, "b": 2}:
\* zz is added, a.b is 7, a.c keeps 5 and b keeps 2.
C11_Witness ==
    /\ DefaultsCase
    /\ init_kwargs[<<"d", "e", "f", "a", "u", "l", "t", "s">>] = SiblingDefaults
    /\ argv = <<<<"@", "s", "t", "r", "i", "c", "t", "=", "f", "a", "l", "s", "e">>, <<"a", ".", "b", "=", "7">>, <<"z", "z", "=", "1">>>>
    /\ ret = PyNone
    /\ ValueAt(self_args, <<PyStr(<<"z", "z">>)>>) = PyInt(1)
    /\ ValueAt(self_args, <<PyStr(<<"a">>), PyStr(<<"b">>)>>) = PyInt(7)
    /\ ValueAt(self_args, <<PyStr(<<"a">>), PyStr(<<"c">>)>>) = PyInt(5)
    /\ ValueAt(self_args, <<PyStr(<<"b">>)>>) = PyInt(2)

\* The key of the token is "@" followed by a configuration name.
IsSpecial(tok) == \E i \in 1..Len(ConfNames) : TokenKey(tok) = <<"@">> \o ConfNames[i]

\* C12: with defaults, every special key of the command line is removed
\* from the arguments before the merge: when every other token is ordinary
\* and addresses a key of the defaults the parse never ends in the
\* strict-merge error, and after a successful parse a special key is in the
\* result exactly when keep_special_kwargs is set.
C12_SpecialKeysKeptOutOfMerge ==
    (/\ op = "Parser"
     /\ init_kwargs[<<"d", "e", "f", "a", "u", "l", "t", "s">>] # PyNone
     /\ ~Malformed(argv)
     /\ DistinctKeys(argv)
     /\ \E i \in 1..Len(argv) : IsSpecial(argv[i])
     /\ \A i \in 1..Len(argv) : TokenKey(argv[i]) # <<"@", "d", "e", "f", "a", "u", "l", "t", "s">>) =>
        /\ (\A i \in 1..Len(argv) :
                \/ IsSpecial(argv[i])
                \/ OrdinaryToken(argv[i]) /\ ~PathAbsent(DefaultsMap, ArgPath(argv[i])))
               => ret # Raise("KeyError")
        /\ ret = PyNone =>
               \A i \in 1..Len(argv) :
                   IsSpecial(argv[i]) =>
                       (DictHas(self_args.v, PyStr(TokenKey(argv[i])))
                            <=> Truthy(Conf(self_conf, <<"k", "e", "e", "p", "_", "s", "p", "e", "c", "i", "a", "l", "_", "k", "w", "a", "r", "g", "s">>)))


\* The text of the token up to its first "=".
RawKey(tok) == IF FirstEq(tok) > 0 THEN SubSeq(tok, 1, FirstEq(tok) - 1) ELSE tok

\* The token is an override of the configuration name n.
Overrides(tok, n) == RawKey(tok) = <<"@">> \o n

\* The key of the token starts with "@" and forces no type; its value holds
\* no variable.
AtToken(tok) ==
    /\ TokenKey(tok) # <<>>
    /\ TokenKey(tok)[1] = "@"
    /\ ~StrIn(<<"_", "_", "_">>, TokenKey(tok))
    /\ IsStr(TokenValue(tok)) => ~StrIn(<<"$">>, TokenValue(tok).v)

\* field holds v: it is v, or for a mapping v it is a map that holds every
\* value of v under its key.
RECURSIVE Carries(_, _)
Carries(field, v) ==
    IF IsDictLike(v)
    THEN /\ IsMiny(field)
         /\ \A i \in 1..Len(v.v) :
                /\ DictHas(field.v, v.v[i][1])
                /\ Carries(DictGet(field.v, v.v[i][1]), v.v[i][2])
    ELSE field = v

\* The value configured for n in this invocation: the value of the token
\* that overrides n, or else the parameter of the Parser.
Effective(n) ==
    IF \E i \in 1..Len(argv) : Overrides(argv[i], n)
    THEN ArgVal(argv[CHOOSE i \in 1..Len(argv) : Overrides(argv[i], n)])
    ELSE init_kwargs[n]

\* A Parser on a well-formed command line of ordinary and @-prefixed tokens,
\* no two of them overriding the same configuration name.
OverrideCase ==
    /\ op = "Parser"
    /\ ~Malformed(argv)
    /\ \A i \in 1..Len(argv) : OrdinaryToken(argv[i]) \/ AtToken(argv[i])
    /\ \A i, j \in 1..Len(argv) :
           (i # j /\ TokenKey(argv[i])[1] = "@") => TokenKey(argv[i]) # TokenKey(argv[j])

\* C13: the override tokens take effect before the tokens are mapped: the
\* configuration holds the value of every token whose key is "@" and a
\* configuration name, and the overwrite policy applied to the repeated
\* ordinary keys is the overridden one (duplicate error when it is off, the
\* last value kept when it is on); an @-prefixed key that is no configuration
\* name leaves every configuration field as the Parser was given it and is
\* in the result with its value.
C13_OverridesTakeEffectBeforeMapping ==
    OverrideCase =>
        /\ \A i \in 1..Len(argv), k \in 1..Len(ConfNames) :
               Overrides(argv[i], ConfNames[k])
                   => Carries(Conf(self_conf, ConfNames[k]), ArgVal(argv[i]))
        /\ ~DistinctKeys(argv) =>
               IF Truthy(Effective(<<"a", "l", "l", "o", "w", "_", "o", "v", "e", "r", "w", "r", "i", "t", "e", "s">>))
               THEN /\ ~(IsRaise(ret) /\ ret.v = "MinydraWrongArgumentException")
                    /\ (ret = PyNone /\ Effective(<<"d", "e", "f", "a", "u", "l", "t", "s">>) = PyNone) =>
                           \A i \in 1..Len(argv) :
                               OrdinaryToken(argv[i]) =>
                                   DictGet(self_args.v, PyStr(TokenKey(argv[i])))
                                       = ArgVal(argv[LastWithKey(argv, i)])
               ELSE IsRaise(ret) /\ ret.v = "MinydraWrongArgumentException"
        /\ \A i \in 1..Len(argv) :
               (AtToken(argv[i]) /\ ~IsSpecial(argv[i])) =>
                   /\ Len(self_conf.v) = Len(ConfNames)
                   /\ \A k \in 1..Len(ConfNames) :
                          (\A j \in 1..Len(argv) : TokenKey(argv[j]) # <<"@">> \o ConfNames[k])
                              => Conf(self_conf, ConfNames[k]) = StoredValue(init_kwargs[ConfNames[k]])
                   /\ ret = PyNone =>
                          /\ DictHas(self_args.v, PyStr(TokenKey(argv[i])))
                          /\ DictGet(self_args.v, PyStr(TokenKey(argv[i]))) = ArgVal(argv[i])

\* @allow_overwrites=true a=1 a=2 on a Parser configured with
\* allow_overwrites=False: the parse succeeds and a is 2.
C13_Witness ==
    /\ OverrideCase
    /\ init_kwargs = DefaultParams
    /\ argv = <<<<"@", "a", "l", "l", "o", "w", "_", "o", "v", "e", "r", "w", "r", "i", "t", "e", "s", "=", "t", "r", "u", "e">>, <<"a", "=", "1">>, <<"a", "=", "2">>>>
    /\ ret = PyNone
    /\ Conf(self_conf, <<"a", "l", "l", "o", "w", "_", "o", "v", "e", "r", "w", "r", "i", "t", "e", "s">>) = PyBool(TRUE)
    /\ DictGet(self_args.v, PyStr(<<"a">>)) = PyInt(2)


\* The last freeze / unfreeze call was made on d itself.
LastRootCall == IF freeze_calls = <<>> THEN "none" ELSE freeze_calls[Len(freeze_calls)]

\* The last operation was an assignment, by item or by attribute.
Assigned == op \in {"__setitem__", "__setattr__"}

\* C14: assignability is determined by the last freeze / unfreeze call on
\* the root: after freeze(), item and attribute assignment on the map and on
\* every map nested in it fail and leave the map unchanged; after unfreeze(),
\* item assignment, and attribute assignment of a name that is not
\* protected, succeed on each of those maps and store the value.
C14_LastFreezeCallDeterminesAssignability ==
    (Assigned /\ LastRootCall \in {"freeze", "unfreeze"}) =>
        IF LastRootCall = "freeze"
        THEN ret = Raise("AttributeError") /\ d = dpre
        ELSE (op = "__setitem__" \/ other.name \notin ProtectedNames) =>
                 /\ ret = PyNone
                 /\ DictHas(Nested(d, other.path).v, PyStr(other.name))
                 /\ Carries(DictGet(Nested(d, other.path).v, PyStr(other.name)), other.val)

\* freeze(), unfreeze(), then an assignment of a new key on a nested map.
C14_Witness ==
    /\ Assigned
    /\ freeze_calls = <<"freeze", "unfreeze">>
    /\ other.path # <<>>
    /\ other.name = <<"n">>
    /\ ret = PyNone
    /\ DictGet(Nested(d, other.path).v, PyStr(<<"n">>)) = PyInt(9)


\* C15: while a map is frozen, deleting an existing key from it, by item or
\* by attribute, fails with the frozen-mutation error and the key and its
\* value remain in the map.
C15_FrozenMapRejectsDeletion ==
    (/\ op \in {"__delitem__", "__delattr__"}
     /\ Nested(dpre, other.path).frozen
     /\ DictHas(Nested(dpre, other.path).v, PyStr(other.name))) =>
        /\ ret = Raise("AttributeError")
        /\ d = dpre


\* No value under a key of m, or of a map nested in m, is a plain dict.
RECURSIVE Normalized(_)
Normalized(m) ==
    \A i \in 1..Len(m.v) :
        /\ m.v[i][2].t # "dict"
        /\ IsMiny(m.v[i][2]) => Normalized(m.v[i][2])

\* C16: after any sequence of construction, item assignment, attribute
\* assignment, update and resolve, every mapping stored under a key of the
\* map, at every depth, is a MinyDict and never a plain dict.
C16_MappingValuesAreNormalized ==
    d # PyNone => IsMiny(d) /\ Normalized(d)

\* The plain dict {"q": {"w": 1}} was assigned by attribute: the value under
\* n and the value under its key q are MinyDicts.
C16_Witness ==
    /\ op = "__setattr__"
    /\ ret = PyNone
    /\ other.name = <<"n">>
    /\ other.val.t = "dict"
    /\ IsMiny(DictGet(Nested(d, other.path).v, PyStr(<<"n">>)))
    /\ IsMiny(DictGet(DictGet(Nested(d, other.path).v, PyStr(<<"n">>)).v, PyStr(<<"q">>)))
    /\ Normalized(d)


\* C17: attribute assignment of a name the class defines fails and leaves
\* the map unchanged; item assignment of the same name on an unfrozen map
\* succeeds, the item get then returns the stored value and the attribute
\* get of the name still returns the operation.
C17_ProtectedNames ==
    /\ (op = "__setattr__" /\ other.name \in ProtectedNames) =>
           /\ ret = Raise("AttributeError")
           /\ d = dpre
    /\ (/\ op = "__setitem__"
        /\ other.name \in ProtectedNames
        /\ ~Nested(dpre, other.path).frozen) =>
           /\ ret = PyNone
           /\ Carries(__getitem__(Nested(d, other.path), PyStr(other.name)), other.val)
           /\ getattr(Nested(d, other.path), other.name) = Method(other.name)

\* d["update"] = 9 on an unfrozen map: d["update"] is 9, d.update the method.
C17_Witness ==
    /\ op = "__setitem__"
    /\ other.name = <<"u", "p", "d", "a", "t", "e">>
    /\ ~Nested(dpre, other.path).frozen
    /\ ret = PyNone
    /\ __getitem__(Nested(d, other.path), PyStr(<<"u", "p", "d", "a", "t", "e">>)) = PyInt(9)
    /\ getattr(Nested(d, other.path), <<"u", "p", "d", "a", "t", "e">>) = Method(<<"u", "p", "d", "a", "t", "e">>)


\* C18: resolve() is idempotent: on a map that a successful resolve() has
\* produced, resolve() succeeds again and leaves the map as it is, and no
\* string key with a dot remains in the map or in a map nested in it.
C18_ResolveIsIdempotent ==
    (op = "resolve" /\ ret = SelfRef) =>
        /\ NoDottedKeys(d)
        /\ With(resolve(d), LAMBDA r : r.err = "" /\ r.obj = d)

\* {"a.b.c": 2, "a.b.d": 3} was resolved into {"a": {"b": {"c": 2, "d": 3}}}.
C18_Witness ==
    /\ op = "resolve"
    /\ ret = SelfRef
    /\ dpre = MinyInit(PyDict(<< <<PyStr(<<"a", ".", "b", ".", "c">>), PyInt(2)>>, <<PyStr(<<"a", ".", "b", ".", "d">>), PyInt(3)>> >>), <<>>)
    /\ ValueAt(d, <<PyStr(<<"a">>), PyStr(<<"b">>), PyStr(<<"d">>)>>) = PyInt(3)
    /\ d # dpre
    /\ resolve(d).obj = d


\* The content of the instance m refers to, with the instances nested in it.
RECURSIVE Tree(_, _)
Tree(h, m) ==
    MkMiny([i \in 1..Len(h[m.v].v) |->
                <<h[m.v].v[i][1],
                  IF IsRef(h[m.v].v[i][2]) THEN Tree(h, h[m.v].v[i][2]) ELSE h[m.v].v[i][2]>>],
           h[m.v].frozen)

\* The last operation assigned through root, on the map at some path.
AssignedThrough(root) == op = "__setitem__" /\ d2 # PyNone /\ other.root = root

\* C19: copy() and deepcopy() return a map that is another instance than the
\* original and equal to it in content, and leave the original as it is; an
\* assignment of a top-level key of the copy, and for deepcopy() an
\* assignment at any depth of the copy, takes place and leaves the content
\* of the original as it was; an assignment at any depth of the original
\* leaves the content of its deep copy as it was.
C19_CopiesAreIndependent ==
    /\ op \in {"copy", "deepcopy"} =>
           /\ d2.ref # d1
           /\ Tree(heap, d2.ref) = Tree(heap, d1)
           /\ Tree(heap, d1) = Tree(hpre, d1)
    /\ (AssignedThrough(d2.ref) /\ (other.path = <<>> \/ d2.by = "deepcopy")) =>
           /\ ret = PyNone
           /\ Carries(ValueAt(Tree(heap, d2.ref), Append(other.path, PyStr(other.name))),
                      other.val)
           /\ Tree(heap, d1) = Tree(hpre, d1)
    /\ (AssignedThrough(d1) /\ d2.by = "deepcopy") =>
           /\ ret = PyNone
           /\ Carries(ValueAt(Tree(heap, d1), Append(other.path, PyStr(other.name))),
                      other.val)
           /\ Tree(heap, d2.ref) = Tree(hpre, d2.ref)

\* After d2 = d1.deepcopy(), d2.r.s.u... an assignment inside a map nested in
\* the copy: the copy differs from the original, which is as it was.
C19_Witness ==
    /\ AssignedThrough(d2.ref)
    /\ d2.by = "deepcopy"
    /\ other.path # <<>>
    /\ ret = PyNone
    /\ Tree(heap, d2.ref) # Tree(heap, d1)
    /\ Tree(heap, d1) = Tree(hpre, d1)

\* C20: copy() is shallow: the values of the copy that are maps are the very
\* instances the original holds, so an assignment inside a nested map made
\* through the copy is seen through the original.
C20_CopySharesNestedMaps ==
    /\ op = "copy" =>
           \A i \in 1..Len(heap[d1.v].v) :
               IsRef(heap[d1.v].v[i][2])
                   => DictGet(heap[d2.ref.v].v, heap[d1.v].v[i][1]) = heap[d1.v].v[i][2]
    /\ (/\ AssignedThrough(d2.ref)
        /\ d2.by = "copy"
        /\ other.path # <<>>
        /\ other.path \in HPaths(hpre, d1.v)) =>
           Carries(ValueAt(Tree(heap, d1), Append(other.path, PyStr(other.name))), other.val)




\* x is a MinyDict or holds one at some depth, under a key or in a sequence.
RECURSIVE HoldsMiny(_)
HoldsMiny(x) ==
    \/ IsMiny(x)
    \/ /\ x.t = "dict"
       /\ \E i \in 1..Len(x.v) : HoldsMiny(x.v[i][2])
    \/ /\ x.t \in {"list", "tuple"}
       /\ \E i \in 1..Len(x.v) : HoldsMiny(x.v[i])

\* x with every MinyDict, at every depth, replaced by a plain mapping of the
\* same keys and values.
RECURSIVE Plain(_)
Plain(x) ==
    IF IsDictLike(x)
    THEN PyDict([i \in 1..Len(x.v) |-> <<x.v[i][1], Plain(x.v[i][2])>>])
    ELSE IF x.t \in {"list", "tuple"}
    THEN [t |-> x.t, v |-> [i \in 1..Len(x.v) |-> Plain(x.v[i])]]
    ELSE x

\* C21: to_dict() returns the keys and leaf values of the map with no
\* MinyDict left at any depth (values of keys, elements of sequences and of
\* sequences inside sequences), leaves the map unchanged, and a MinyDict
\* constructed from the result equals the original.
C21_ToDictLeavesNoNestedMap ==
    op = "to_dict" =>
        /\ ~HoldsMiny(ret)
        /\ ret = Plain(dpre)
        /\ d = dpre
        /\ Plain(MinyInit(ret, <<>>)) = Plain(dpre)



\* The map m with its keys inserted in the opposite order.
Reversed(m) == [m EXCEPT !.v = [i \in 1..Len(m.v) |-> m.v[Len(m.v) + 1 - i]]]

\* C22: when a dotted key's path passes through a value that is no mapping
\* ({"a": 1, "a.b": 2}), resolve() does not fail and returns the map, no
\* dotted key remains, the value of the dotted key is found at its path (the
\* value in the way was replaced by a new nested map), and the result is the
\* one resolve() gives with the keys inserted in the opposite order.
C22_ResolveOverwritesScalarInThePath ==
    (op = "resolve" /\ DeepUnfrozen(dpre) /\ PassesThroughScalar(dpre)) =>
        /\ ret = SelfRef
        /\ NoDottedKeys(d)
        /\ \A a, b \in Entries(dpre, <<>>) :
               (IsProperPrefix(a[1], b[1]) /\ ~IsDictLike(a[2]))
                   => Carries(ValueAt(d, b[1]), b[2])
        /\ With(resolve(Reversed(dpre)),
                LAMBDA r : r.err = "" /\ Canon(r.obj) = Canon(d))



\* C23: freeze() on the root reaches every MinyDict reachable from it, the
\* maps that are elements of a list or tuple included: after freeze(), item
\* and attribute assignment into any of them fail and change nothing; after
\* unfreeze(), they succeed and store the value.
C23_FreezeReachesMapsInSequences ==
    (Assigned /\ other.t = "target" /\ LastRootCall \in {"freeze", "unfreeze"}) =>
        IF LastRootCall = "freeze"
        THEN ret = Raise("AttributeError") /\ d = dpre
        ELSE /\ ret = PyNone
             /\ DictGet(ElemAt(d, other.path).v, PyStr(other.name)) = other.val



\* The entry of m whose key is written ks.
EntryOf(m, ks) == CHOOSE i \in 1..Len(m.v) : Str(m.v[i][1]) = ks

\* The lines that render every entry of m at a nesting level: for a leaf the
\* key, padded to the longest key of its map, ": " and the value stored
\* under the key; for a MinyDict the key alone, then the lines of that map
\* one level deeper.
RECURSIVE Rendering(_, _, _, _)
RECURSIVE RenderKeys(_, _, _, _, _, _)
RenderKeys(m, ks, i, indents, sort_keys, level) ==
    IF i > Len(ks) THEN <<>>
    ELSE With(m.v[EntryOf(m, ks[i])][2],
              LAMBDA v :
                  (IF IsMiny(v)
                   THEN <<Indent(indents, level) \o ks[i]>>
                        \o Rendering(v, indents, sort_keys, level + 1)
                   ELSE <<Indent(indents, level) \o Padded(ks[i], MaxLen(ks) + 1)
                          \o <<":", " ">> \o Str(v)>>)
                  \o RenderKeys(m, ks, i + 1, indents, sort_keys, level))
Rendering(m, indents, sort_keys, level) ==
    RenderKeys(m, KeyStrs(m, sort_keys), 1, indents, sort_keys, level)

\* What the lines of a printed box hold between its borders.
BoxBody(lines) ==
    [i \in 1..(Len(lines) - 2) |-> RStrip(SubSeq(lines[i + 1], 3, Len(lines[i + 1]) - 2))]

\* C24: in a terminal wide enough for every line, pretty_print renders every
\* entry of the map, whatever the type of its key: a leaf as its key followed
\* by the value stored under that key, a MinyDict as its key alone followed
\* by the rendering of that map; the map is unchanged and is returned.
C24_PrettyPrintRendersEveryEntry ==
    (/\ op = "pretty_print"
     /\ MaxLen(Rendering(dpre, other.indents, other.sort_keys, 0)) + 4 <= other.columns - 4) =>
        /\ ret = SelfRef
        /\ d = dpre
        /\ BoxBody(stdout)
               = With(Rendering(dpre, other.indents, other.sort_keys, 0),
                      LAMBDA ls : [i \in 1..Len(ls) |-> RStrip(ls[i])])



\* The key a token is stored under: its key, without the suffix that forces
\* a known type.
StoredKey(tok) ==
    With(StrSplit(TokenKey(tok), type_separator),
         LAMBDA parts : IF Len(parts) = 2 /\ parts[2] \in known_types THEN parts[1]
                        ELSE TokenKey(tok))

\* C25: when overwrites are disallowed, a parse that succeeds has no two
\* tokens stored under the same key; two tokens whose keys differ only by a
\* forced-type suffix (a=1 and a___int=2) are rejected as a duplicate.
C25_NoTwoTokensSupplyOneStoredKey ==
    (/\ op = "Parser"
     /\ ret = PyNone
     /\ ~Truthy(Effective(<<"a", "l", "l", "o", "w", "_", "o", "v", "e", "r", "w", "r", "i", "t", "e", "s">>))) =>
        \A i, j \in 1..Len(argv) : i # j => StoredKey(argv[i]) # StoredKey(argv[j])



\* C26: without a forced type, inference returns a value for every string
\* and never raises; the bracketed strings that are no list or dict literal,
\* [a, b] and the set {1, 2}, are returned as they are.
C26_InferenceIsTotal ==
    (op = "_infer_arg_type" /\ flags.type_str = PyNone /\ IsStr(value)) =>
        /\ ~IsRaise(ret)
        /\ value.v \in {<<"[", "a", ",", " ", "b", "]">>, <<"{", "1", ",", " ", "2", "}">>} => ret = value



\* C27: a Parser constructed with an object of the caller as defaults, a
\* plain dict or a MinyDict, leaves that object as it was: whatever the
\* command line (overrides of nested leaves, new keys when not strict, a
\* parse that fails), every instance reachable from the object before the
\* call holds the same keys and values, at every depth, after it.
C27_DefaultsObjectIsNotMutated ==
    (op = "Parser" /\ d1 # PyNone) =>
        \A id \in HReach(hpre, d1.v) : heap[id] = hpre[id]

\* a.b=7 on the caller's MinyDict {"a": {"b": 1, "c": 5}, "b": 2}: the
\* arguments hold 7 under a.b, the caller's object still holds 1.
C27_Witness ==
    /\ op = "Parser"
    /\ d1 # PyNone
    /\ IsMinyRef(heap, d1)
    /\ argv = <<<<"a", ".", "b", "=", "7">>>>
    /\ ret = PyNone
    /\ HValue(heap, DictGet(heap[d2.ref.v].v, PyStr(<<"a">>)))
           = PyDict(<< <<PyStr(<<"b">>), PyInt(7)>>, <<PyStr(<<"c">>), PyInt(5)>> >>)
    /\ HValue(heap, d1) = SiblingDefaults

====
